---- MODULE Spec2Model ----
(***************************************************************************)
(* MockTree: dependency-ordered insertion of synthetic rows.               *)
(*                                                                         *)
(* The model follows one process run of index.js: the start-table prompt,  *)
(* clearCache, findTableInDatabase, exploreTree (foreignKeys.js),          *)
(* generateInsert for every root (insert.js), insertMainTable and the      *)
(* final report.  Every database round trip is one step.  The database and *)
(* its catalog are the environment: a catalog is fixed per behaviour, the  *)
(* database answers catalog queries from it, and it may fail a query,      *)
(* reject an insert or hand back a falsy key within a budget of MaxFaults. *)
(***************************************************************************)
EXTENDS Integers, Sequences, FiniteSets, TLC

VARIABLES
    cat,            \* name of the catalog the database holds (environment, fixed)
    rows,           \* database contents: table key -> set of primary-key values
    nextVal,        \* next fresh value (generated keys and synthesized literals)
    faults,         \* environment deviations injected so far
    pc,             \* position of main()'s question callback
    tableName,      \* the trimmed start-table input
    visited,        \* exploreTree: the visited set of edge keys
    nodes,          \* exploreTree: the nodes created so far (parent 0 = root)
    bstack,         \* exploreTree: the call stack
    gstack,         \* generateInsert: the call stack
    insertedIds,    \* insert.js module cache: "schema.table" -> sequence of ids
    idMap,          \* main(): the local insertedIds map rebuilt from outcomes
    rootIdx,        \* main(): index of the root being processed in phase 1
    counters,       \* main(): totalInserts, successfulInserts, failedInserts
    mainSt,         \* insertMainTable: its local state
    mainResult,     \* main(): what insertMainTable returned
    ret,            \* history: node -> the sequence generateInsert(node) returned
    dbLog           \* history: the database round trips issued, in order

vars == <<cat, rows, nextVal, faults, pc, tableName, visited, nodes, bstack,
          gstack, insertedIds, idMap, rootIdx, counters, mainSt, mainResult,
          ret, dbLog>>

----------------------------------------------------------------------------
(* Bounds of the model *)

\* Environment deviations per run: a failed catalog query, a rejected insert,
\* an insert that returns no row, a generated key that is falsy.
MaxFaults == 2

(* Program constants *)

\* exploreTree's default maxDepth
maxDepth == 10

----------------------------------------------------------------------------
(* JavaScript values.  Keys and synthesized literals are naturals; 0 stands *)
(* for the falsy ones (0, false, '').                                       *)

Null == -1
Undef == -2

Truthy(v) == v > 0

----------------------------------------------------------------------------
(* Strings: order and case folding, as the SQL ORDER BY and ILIKE use them *)

Alphabet == "0123456789ABCDEFGHIJKLMNOPQRSTUVWXYZ_abcdefghijklmnopqrstuvwxyz"

CharCode(c) == CHOOSE i \in 1..Len(Alphabet) : SubSeq(Alphabet, i, i) = c

LowerChar(c) ==
    LET n == CharCode(c)
    IN  IF n >= 11 /\ n <= 36 THEN SubSeq(Alphabet, n + 27, n + 27) ELSE c

RECURSIVE Lower(_)
Lower(s) == IF s = "" THEN "" ELSE LowerChar(SubSeq(s, 1, 1)) \o Lower(Tail(s))

RECURSIVE StrLess(_, _)
StrLess(a, b) ==
    IF b = "" THEN FALSE
    ELSE IF a = "" THEN TRUE
    ELSE LET x == CharCode(SubSeq(a, 1, 1))
             y == CharCode(SubSeq(b, 1, 1))
         IN  IF x # y THEN x < y ELSE StrLess(Tail(a), Tail(b))

EndsWith(s, suf) ==
    Len(s) >= Len(suf) /\ SubSeq(s, Len(s) - Len(suf) + 1, Len(s)) = suf

DropLast(s, n) == SubSeq(s, 1, Len(s) - n)

Range(s) == {s[i] : i \in 1..Len(s)}

----------------------------------------------------------------------------
(* The catalogs: what information_schema holds.  A table is its schema, its *)
(* name and its columns in ordinal order; a foreign key is one row of the   *)
(* constraint join of getForeignKeys.                                       *)

Col(name, type, nullable, hasDefault) ==
    [column_name |-> name, data_type |-> type,
     is_nullable |-> nullable, has_default |-> hasDefault]

Tbl(schema, table, columns) ==
    [schema |-> schema, table |-> table, columns |-> columns]

Fk(ss, st, sc, ts, tt, tc) ==
    [source_schema |-> ss, source_table |-> st, source_column |-> sc,
     target_schema |-> ts, target_table |-> tt, target_column |-> tc]

IdCol == Col("id", "integer", FALSE, TRUE)

\* orders references customers and products
CatOrders ==
    [start  |-> "orders",
     tables |-> << Tbl("public", "orders",
                       << IdCol,
                          Col("customer_id", "integer", FALSE, FALSE),
                          Col("product_id", "integer", FALSE, FALSE),
                          Col("note", "text", TRUE, FALSE) >>),
                   Tbl("public", "customers",
                       << IdCol, Col("name", "character varying", FALSE, FALSE) >>),
                   Tbl("public", "products",
                       << IdCol, Col("name", "character varying", FALSE, FALSE) >>) >>,
     fks    |-> << Fk("public", "orders", "customer_id", "public", "customers", "id"),
                   Fk("public", "orders", "product_id", "public", "products", "id") >>]

\* a table that references itself
CatSelfRef ==
    [start  |-> "category",
     tables |-> << Tbl("public", "category",
                       << IdCol,
                          Col("parent_id", "integer", TRUE, FALSE),
                          Col("name", "text", FALSE, FALSE) >>) >>,
     fks    |-> << Fk("public", "category", "parent_id", "public", "category", "id") >>]

\* a cycle of two tables
CatCycle ==
    [start  |-> "a",
     tables |-> << Tbl("public", "a",
                       << IdCol, Col("b_id", "integer", FALSE, FALSE) >>),
                   Tbl("public", "b",
                       << IdCol, Col("a_id", "integer", TRUE, TRUE) >>) >>,
     fks    |-> << Fk("public", "a", "b_id", "public", "b", "id"),
                   Fk("public", "b", "a_id", "public", "a", "id") >>]

\* a table reached over two paths: a -> b -> c and a -> c
CatShared ==
    [start  |-> "a",
     tables |-> << Tbl("public", "a",
                       << IdCol,
                          Col("b_id", "integer", FALSE, FALSE),
                          Col("c_id", "bigint", FALSE, FALSE) >>),
                   Tbl("public", "b",
                       << IdCol, Col("c_id", "smallint", FALSE, FALSE) >>),
                   Tbl("public", "c",
                       << IdCol, Col("name", "text", FALSE, FALSE) >>) >>,
     fks    |-> << Fk("public", "a", "b_id", "public", "b", "id"),
                   Fk("public", "a", "c_id", "public", "c", "id"),
                   Fk("public", "b", "c_id", "public", "c", "id") >>]

\* a referenced table all of whose columns are optional
CatBare ==
    [start  |-> "p",
     tables |-> << Tbl("public", "p",
                       << IdCol, Col("q_id", "integer", FALSE, FALSE) >>),
                   Tbl("public", "q",
                       << IdCol, Col("note", "text", TRUE, FALSE) >>) >>,
     fks    |-> << Fk("public", "p", "q_id", "public", "q", "id") >>]

\* the same table name in two schemas: x references s2.a, s1.a references b
CatTwoSchemas ==
    [start  |-> "x",
     tables |-> << Tbl("public", "x",
                       << IdCol, Col("a_id", "integer", FALSE, FALSE) >>),
                   Tbl("s1", "a",
                       << IdCol, Col("b_id", "integer", FALSE, FALSE) >>),
                   Tbl("s2", "a",
                       << IdCol, Col("label", "text", FALSE, FALSE) >>),
                   Tbl("public", "b",
                       << IdCol, Col("name", "text", FALSE, FALSE) >>) >>,
     fks    |-> << Fk("public", "x", "a_id", "s2", "a", "id"),
                   Fk("s1", "a", "b_id", "public", "b", "id") >>]

\* a dependency without required columns under which the tree has a node:
\* x references s2.a, which has the key alone, and the foreign keys looked
\* up for the name a are those of s1.a
CatHollow ==
    [start  |-> "x",
     tables |-> << Tbl("public", "x",
                       << IdCol, Col("a_id", "integer", FALSE, FALSE) >>),
                   Tbl("s1", "a",
                       << IdCol, Col("b_id", "integer", FALSE, FALSE) >>),
                   Tbl("s2", "a", << IdCol >>),
                   Tbl("public", "b",
                       << IdCol, Col("name", "text", FALSE, FALSE) >>) >>,
     fks    |-> << Fk("public", "x", "a_id", "s2", "a", "id"),
                   Fk("s1", "a", "b_id", "public", "b", "id") >>]

\* a table without foreign keys
CatSolo ==
    [start  |-> "solo",
     tables |-> << Tbl("public", "solo",
                       << IdCol, Col("name", "text", FALSE, FALSE) >>) >>,
     fks    |-> << >>]

\* a table without foreign keys all of whose columns may be left out
CatPlain ==
    [start  |-> "plain",
     tables |-> << Tbl("public", "plain",
                       << IdCol, Col("note", "text", TRUE, FALSE) >>) >>,
     fks    |-> << >>]

\* a dependency whose id is not its first column
CatCodeFirst ==
    [start  |-> "item",
     tables |-> << Tbl("public", "item",
                       << IdCol, Col("tag_id", "integer", FALSE, FALSE) >>),
                   Tbl("public", "tag",
                       << Col("code", "integer", FALSE, FALSE), IdCol >>) >>,
     fks    |-> << Fk("public", "item", "tag_id", "public", "tag", "id") >>]

\* a dependency with two dependencies of its own: s -> p, p -> x and p -> y
CatFanout ==
    [start  |-> "s",
     tables |-> << Tbl("public", "s",
                       << IdCol, Col("p_id", "integer", FALSE, FALSE) >>),
                   Tbl("public", "p",
                       << IdCol,
                          Col("x_id", "integer", FALSE, FALSE),
                          Col("y_id", "integer", FALSE, FALSE) >>),
                   Tbl("public", "x", << IdCol, Col("name", "text", FALSE, FALSE) >>),
                   Tbl("public", "y", << IdCol, Col("name", "text", FALSE, FALSE) >>) >>,
     fks    |-> << Fk("public", "s", "p_id", "public", "p", "id"),
                   Fk("public", "p", "x_id", "public", "x", "id"),
                   Fk("public", "p", "y_id", "public", "y", "id") >>]

\* a dependency t whose columns are matched by name: EstadoCaracteristicaId
\* has a node of its own and a mapping; TipoCaracteristicaId has no node (its
\* edge t -> k is the one of CaracteristicaId), a mapping and a stripped name
\* that is the column TipoCaracteristica; TipoCaracteristica_id is no FK
\* column and has that stripped name too
CatHeuristic ==
    [start  |-> "s",
     tables |-> << Tbl("public", "s",
                       << IdCol, Col("t_id", "integer", FALSE, FALSE) >>),
                   Tbl("public", "t",
                       << IdCol,
                          Col("CaracteristicaId", "integer", FALSE, FALSE),
                          Col("EstadoCaracteristicaId", "integer", FALSE, FALSE),
                          Col("TipoCaracteristica", "integer", FALSE, FALSE),
                          Col("TipoCaracteristicaId", "integer", FALSE, FALSE),
                          Col("TipoCaracteristica_id", "integer", FALSE, FALSE) >>),
                   Tbl("public", "k", << IdCol, Col("name", "text", FALSE, FALSE) >>),
                   Tbl("public", "m", << IdCol, Col("name", "text", FALSE, FALSE) >>),
                   Tbl("public", "e", << IdCol, Col("name", "text", FALSE, FALSE) >>) >>,
     fks    |-> << Fk("public", "s", "t_id", "public", "t", "id"),
                   Fk("public", "t", "CaracteristicaId", "public", "k", "id"),
                   Fk("public", "t", "EstadoCaracteristicaId", "public", "e", "id"),
                   Fk("public", "t", "TipoCaracteristica", "public", "m", "id"),
                   Fk("public", "t", "TipoCaracteristicaId", "public", "k", "id") >>]

\* a chain n00 -> n01 -> ... -> n12 of thirteen tables, longer than the
\* recursion goes, and a second table, side, that n00 references
ChainNames == <<"n00", "n01", "n02", "n03", "n04", "n05", "n06",
                "n07", "n08", "n09", "n10", "n11", "n12">>

CatDeep ==
    [start  |-> "n00",
     tables |-> [i \in 1..Len(ChainNames) |->
                    Tbl("public", ChainNames[i],
                        IF i = 1
                        THEN << IdCol, Col("next_id", "integer", TRUE, FALSE),
                                Col("side_id", "integer", TRUE, FALSE) >>
                        ELSE IF i < Len(ChainNames)
                        THEN << IdCol, Col("next_id", "integer", TRUE, FALSE) >>
                        ELSE << IdCol >>)]
                \o << Tbl("public", "side", << IdCol >>) >>,
     fks    |-> [i \in 1..(Len(ChainNames) - 1) |->
                    Fk("public", ChainNames[i], "next_id",
                       "public", ChainNames[i + 1], "id")]
                \o << Fk("public", "n00", "side_id", "public", "side", "id") >>]

\* r is referenced by n00 and by the end of the chain n00 -> ... -> n09, and
\* r -> s -> t: s is two foreign keys away from n00, and eleven by the chain
DetourTables ==
    [i \in 1..10 |->
        Tbl("public", ChainNames[i],
            IF i = 1
            THEN << IdCol, Col("next_id", "integer", TRUE, FALSE),
                    Col("r_id", "integer", TRUE, FALSE) >>
            ELSE << IdCol, Col("next_id", "integer", TRUE, FALSE) >>)]
    \o << Tbl("public", "r", << IdCol, Col("s_id", "integer", TRUE, FALSE) >>),
          Tbl("public", "s", << IdCol, Col("t_id", "integer", TRUE, FALSE) >>),
          Tbl("public", "t", << IdCol >>) >>

DetourChain ==
    [i \in 1..10 |->
        Fk("public", ChainNames[i], "next_id",
           "public", IF i < 10 THEN ChainNames[i + 1] ELSE "r", "id")]

DetourRest ==
    << Fk("public", "r", "s_id", "public", "s", "id"),
       Fk("public", "s", "t_id", "public", "t", "id") >>

ShortcutFk == Fk("public", "n00", "r_id", "public", "r", "id")

\* the catalog returns the foreign key of the chain before the one to r
CatDetour ==
    [start |-> "n00", tables |-> DetourTables,
     fks |-> DetourChain \o << ShortcutFk >> \o DetourRest]

\* the same tables and foreign keys, the one to r returned first
CatShortcut ==
    [start |-> "n00", tables |-> DetourTables,
     fks |-> << ShortcutFk >> \o DetourChain \o DetourRest]

\* x references s2.a, which references b, and the name a is also a table
\* of s1, without foreign keys
CatOtherSchema ==
    [start  |-> "x",
     tables |-> << Tbl("public", "x",
                       << IdCol, Col("a_id", "integer", FALSE, FALSE) >>),
                   Tbl("s1", "a", << IdCol >>),
                   Tbl("s2", "a",
                       << IdCol, Col("b_id", "integer", FALSE, FALSE) >>),
                   Tbl("public", "b",
                       << IdCol, Col("name", "text", FALSE, FALSE) >>) >>,
     fks    |-> << Fk("public", "x", "a_id", "s2", "a", "id"),
                   Fk("s2", "a", "b_id", "public", "b", "id") >>]

CatalogNames == {"orders", "selfref", "cycle", "shared", "bare", "twoschemas", "solo",
                 "plain", "codefirst", "heuristic", "hollow"}

\* the catalogs whose tree is built without the inserts that follow
BuildCatalogs == CatalogNames \cup {"deep", "detour", "shortcut", "otherschema"}

\* the catalogs that differ in the shape of the tree (heuristic differs from
\* fanout in the names of its columns)
RunCatalogs == (CatalogNames \ {"heuristic"}) \cup {"fanout"}

AllCatalogs == BuildCatalogs \cup RunCatalogs

Catalog(c) ==
    CASE c = "orders"     -> CatOrders
      [] c = "selfref"    -> CatSelfRef
      [] c = "cycle"      -> CatCycle
      [] c = "shared"     -> CatShared
      [] c = "bare"       -> CatBare
      [] c = "twoschemas" -> CatTwoSchemas
      [] c = "hollow"     -> CatHollow
      [] c = "solo"       -> CatSolo
      [] c = "plain"      -> CatPlain
      [] c = "codefirst"  -> CatCodeFirst
      [] c = "fanout"     -> CatFanout
      [] c = "heuristic"  -> CatHeuristic
      [] c = "deep"       -> CatDeep
      [] c = "detour"     -> CatDetour
      [] c = "shortcut"   -> CatShortcut
      [] c = "otherschema" -> CatOtherSchema

\* the key of a table in the id cache and in an outcome: `${schema}.${table}`
TableKey(schema, table) == schema \o "." \o table

TableKeys(c) == {TableKey(t.schema, t.table) : t \in Range(Catalog(c).tables)}

\* a key no fresh value reaches: the row a prefilled table holds
PrefilledKey == 90

----------------------------------------------------------------------------
(* The catalog queries of queries.js, as functions of the catalog *)

NoTable == [schema |-> "", table |-> ""]

\* ORDER BY CASE WHEN table_name = $1 THEN 1 ELSE 2 END, table_schema
TableBefore(name, t, u) ==
    LET rt == IF t.table = name THEN 1 ELSE 2
        ru == IF u.table = name THEN 1 ELSE 2
    IN  rt < ru \/ (rt = ru /\ StrLess(t.schema, u.schema))

\* the query of findTableInDatabase: the first row of the ILIKE match, or
\* NoTable for null
FindTableQuery(c, name) ==
    LET found == {t \in Range(Catalog(c).tables) : Lower(t.table) = Lower(name)}
    IN  IF found = {} THEN NoTable
        ELSE LET best == CHOOSE t \in found :
                             \A u \in found : ~TableBefore(name, u, t)
             IN  [schema |-> best.schema, table |-> best.table]

\* the names a run asks the catalog for: the input and the tables' names
AskedNames(c) ==
    {"nope", Catalog(c).start} \cup {t.table : t \in Range(Catalog(c).tables)}

\* the catalog does not change during a run: the answers of the query
FindTableAnswers ==
    [c \in AllCatalogs |-> [name \in AskedNames(c) |-> FindTableQuery(c, name)]]

\* findTableInDatabase
FindTableInDatabase(c, name) ==
    IF name \in AskedNames(c) THEN FindTableAnswers[c][name]
    ELSE FindTableQuery(c, name)

FksOf(c, schema, table) ==
    SelectSeq(Catalog(c).fks,
              LAMBDA fk : fk.source_schema = schema /\ fk.source_table = table)

\* variant: no lookup finds a foreign key; C27 fails under it
NoForeignKeys(c, table) == <<>>

\* getForeignKeys: the table is looked up by its name alone
GetForeignKeys(c, table) ==
    LET tableInfo == FindTableInDatabase(c, table)
    IN  IF tableInfo = NoTable THEN <<>>
        ELSE FksOf(c, tableInfo.schema, tableInfo.table)

NoFk == Fk("", "", "", "", "", "")

\* findFKReference: the first constraint row of the column, or NoFk for null
FindFKReference(c, schema, table, column) ==
    LET found == SelectSeq(FksOf(c, schema, table),
                           LAMBDA fk : fk.source_column = column)
    IN  IF found = <<>> THEN NoFk ELSE found[1]

ColumnsOf(c, schema, table) ==
    LET found == SelectSeq(Catalog(c).tables,
                           LAMBDA t : t.schema = schema /\ t.table = table)
    IN  IF found = <<>> THEN <<>> ELSE found[1].columns

IsFkColumn(c, schema, table, column) ==
    \E i \in 1..Len(Catalog(c).fks) :
        LET fk == Catalog(c).fks[i]
        IN  /\ fk.source_schema = schema
            /\ fk.source_table = table
            /\ fk.source_column = column

\* the CASE of getRequiredColumns that derives data_limit
DataLimit(type) ==
    CASE type = "integer"  -> 32
      [] type = "bigint"   -> 64
      [] type = "smallint" -> 16
      [] OTHER             -> Null

\* the ORDER BY of getRequiredColumns: uuid ids, then FKs, then the rest
ColumnRank(col) ==
    IF EndsWith(Lower(col.column_name), "id") /\ col.data_type = "uuid" THEN 1
    ELSE IF col.column_type = "fk" THEN 2
    ELSE 3

ColumnBefore(a, b) ==
    \/ ColumnRank(a) < ColumnRank(b)
    \/ ColumnRank(a) = ColumnRank(b) /\ StrLess(a.column_name, b.column_name)

RECURSIVE InsertColumn(_, _)
InsertColumn(x, s) ==
    IF s = <<>> THEN <<x>>
    ELSE IF ColumnBefore(x, Head(s)) THEN <<x>> \o s
    ELSE <<Head(s)>> \o InsertColumn(x, Tail(s))

RECURSIVE SortColumns(_)
SortColumns(s) ==
    IF s = <<>> THEN <<>>
    ELSE InsertColumn(Head(s), SortColumns(Tail(s)))

\* variant: a column that may be left out is not returned, FK or not; C30
\* fails under it
IsMandatoryColumn(c, schema, table, col) == ~col.is_nullable /\ ~col.has_default

\* the WHERE of getRequiredColumns
IsRequiredColumn(c, schema, table, col) ==
    \/ ~col.is_nullable /\ ~col.has_default
    \/ IsFkColumn(c, schema, table, col.column_name)

\* the query of getRequiredColumns: the rows it returns
RequiredColumnsQuery(c, schema, table) ==
    LET cols == ColumnsOf(c, schema, table)
        kept == SelectSeq(cols, LAMBDA col : IsRequiredColumn(c, schema, table, col))
        Row(col) ==
            [column_name |-> col.column_name,
             data_type   |-> col.data_type,
             data_limit  |-> DataLimit(col.data_type),
             column_type |-> IF IsFkColumn(c, schema, table, col.column_name)
                             THEN "fk"
                             ELSE IF ~col.is_nullable /\ ~col.has_default
                                  THEN "required" ELSE "optional"]
    IN  SortColumns([i \in 1..Len(kept) |-> Row(kept[i])])

\* the catalog does not change during a run: the answers of the query
RequiredColumnsAnswers ==
    [c \in AllCatalogs |->
        [t \in Range(Catalog(c).tables) |->
            RequiredColumnsQuery(c, t.schema, t.table)]]

\* getRequiredColumns
GetRequiredColumns(c, schema, table) ==
    LET found == SelectSeq(Catalog(c).tables,
                           LAMBDA t : t.schema = schema /\ t.table = table)
    IN  IF found = <<>> THEN <<>> ELSE RequiredColumnsAnswers[c][found[1]]

----------------------------------------------------------------------------
(* The dependency tree.  nodes[i].parent is the node whose children list    *)
(* holds node i (0: the list exploreTree returns to main); the children of  *)
(* a node are in creation order, which is the order of result.push.         *)

ChildIds(ns, n) ==
    SelectSeq([i \in 1..Len(ns) |-> i], LAMBDA i : ns[i].parent = n)

RECURSIVE IsDescendant(_, _, _)
IsDescendant(ns, d, n) ==
    /\ d # 0
    /\ ns[d].parent # 0
    /\ (ns[d].parent = n \/ IsDescendant(ns, ns[d].parent, n))

\* the key exploreTree puts in visited
EdgeKey(fk) ==
    fk.source_schema \o "." \o fk.source_table \o "->" \o
    fk.target_schema \o "." \o fk.target_table

NodeKey(nd) ==
    nd.from_schema \o "." \o nd.from_table \o "->" \o nd.to_schema \o "." \o nd.to_table

MakeNode(fk, depth, parent) ==
    [from_schema |-> fk.source_schema, from_table |-> fk.source_table,
     from_column |-> fk.source_column,
     to_schema |-> fk.target_schema, to_table |-> fk.target_table,
     to_column |-> fk.target_column,
     depth |-> depth, parent |-> parent]

\* variant: the key of a new edge is not recorded; C3 fails under it
MarkNothing(vis, key) == vis

\* variant: no edge is ever taken for visited; C2 fails under it
NeverVisited(vis, key) == FALSE

\* visited.add(key)
MarkVisited(vis, key) == vis \cup {key}

\* variant: the recursion is never cut; C18 fails under it
NeverTooDeep(depth) == FALSE

\* exploreTree's guard on the recursion depth
DepthExceeded(depth) == depth > maxDepth

\* exploreTree's test of the visited set
IsVisited(vis, key) == key \in vis

----------------------------------------------------------------------------
(* insert.js: the search of the tree for the node of an FK column *)

\* findChildNodeDirect: breadth-first over the children; 0 for null
RECURSIVE SearchQueue(_, _, _, _, _)
SearchQueue(ns, queue, schema, table, column) ==
    IF queue = <<>> THEN 0
    ELSE LET child == Head(queue)
         IN  IF /\ ns[child].from_schema = schema
                /\ ns[child].from_table = table
                /\ ns[child].from_column = column
             THEN child
             ELSE SearchQueue(ns, Tail(queue) \o ChildIds(ns, child),
                              schema, table, column)

FindChildNodeDirect(ns, node, schema, table, column) ==
    SearchQueue(ns, ChildIds(ns, node), schema, table, column)

\* intelligentColumnMapping.get(column); "" for undefined
IntelligentColumnMapping(column) ==
    CASE column = "EstadoCivilCaracteristicaId" -> "CaracteristicaId"
      [] column = "EstadoCaracteristicaId"      -> "CaracteristicaId"
      [] column = "TipoCaracteristicaId"        -> "CaracteristicaId"
      [] OTHER                                  -> ""

\* variant: the name without _Id/_id is tried first; C31 fails under it
PatternsUnderscoreFirst(column) ==
    << IF EndsWith(column, "_Id") \/ EndsWith(column, "_id")
          THEN DropLast(column, 3) ELSE column,
       IF EndsWith(column, "Id") THEN DropLast(column, 2) ELSE column,
       IF EndsWith(column, "Id") \/ EndsWith(column, "id")
          THEN DropLast(column, 2) ELSE column >>

\* the three String.replace calls of findChildNodeIntelligent
Patterns(column) ==
    << IF EndsWith(column, "Id") THEN DropLast(column, 2) ELSE column,
       IF EndsWith(column, "_Id") \/ EndsWith(column, "_id")
          THEN DropLast(column, 3) ELSE column,
       IF EndsWith(column, "Id") \/ EndsWith(column, "id")
          THEN DropLast(column, 2) ELSE column >>

RECURSIVE FirstPatternMatch(_, _, _, _, _, _)
FirstPatternMatch(ns, node, schema, table, column, patterns) ==
    IF patterns = <<>> THEN 0
    ELSE LET pattern == Head(patterns)
             found == IF pattern # column /\ Len(pattern) > 2
                      THEN FindChildNodeDirect(ns, node, schema, table, pattern)
                      ELSE 0
         IN  IF found # 0 THEN found
             ELSE FirstPatternMatch(ns, node, schema, table, column, Tail(patterns))

\* variant: the stripped names are tried before the mapping; C16 fails under it
FindChildNodePatternFirst(ns, node, schema, table, column) ==
    LET directResult == FindChildNodeDirect(ns, node, schema, table, column)
        mappedColumn == IntelligentColumnMapping(column)
        patternResult == FirstPatternMatch(ns, node, schema, table, column,
                                           Patterns(column))
    IN  IF directResult # 0 THEN directResult
        ELSE IF patternResult # 0 THEN patternResult
        ELSE IF mappedColumn # ""
        THEN FindChildNodeDirect(ns, node, schema, table, mappedColumn)
        ELSE 0

FindChildNodeIntelligent(ns, node, schema, table, column) ==
    LET directResult == FindChildNodeDirect(ns, node, schema, table, column)
        mappedColumn == IntelligentColumnMapping(column)
        mappedResult == IF mappedColumn # ""
                        THEN FindChildNodeDirect(ns, node, schema, table, mappedColumn)
                        ELSE 0
    IN  IF directResult # 0 THEN directResult
        ELSE IF mappedResult # 0 THEN mappedResult
        ELSE FirstPatternMatch(ns, node, schema, table, column, Patterns(column))

\* the cache test that precedes every use of a cached id
CacheHas(map, key) == key \in DOMAIN map /\ Len(map[key]) > 0

\* Map.get(key).push(id), after Map.set(key, []) when the key is new
CachePush(map, key, id) ==
    [k \in DOMAIN map \cup {key} |->
        IF k = key
        THEN (IF key \in DOMAIN map THEN map[key] ELSE <<>>) \o <<id>>
        ELSE map[k]]

EmptyMap == [k \in {} |-> <<>>]

\* getDefaultValue: the FK value when there is one, else a generated literal
\* variant: the value is synthesized whatever the FK value; C15 fails under it
AlwaysSynthesize(dataType, fkValue, limit, generated) == generated

GetDefaultValue(dataType, fkValue, limit, generated) ==
    IF fkValue # Null /\ fkValue # Undef THEN fkValue ELSE generated

----------------------------------------------------------------------------
(* queries.js: getRandomId and insertData against the database contents *)

\* the names getRandomId tries before it falls back to the first column
IdColumnNames(table) ==
    {"Id", "id", "ID", table \o "Id", table \o "_id", "uuid", "pk"}

HasIdColumn(c, schema, table) ==
    \E col \in Range(ColumnsOf(c, schema, table)) :
        col.column_name \in IdColumnNames(table)

\* What getRandomId returns for a row with key v: the rows of
\* SELECT "<name>" as Id, whose alias the database folds to id, or the
\* [{ Id: ... }] built from the first column.  <<>> is the empty array.
RandomIdRows(c, schema, table, v) ==
    IF HasIdColumn(c, schema, table) THEN << [id |-> v] >> ELSE << [Id |-> v] >>

\* randomIdResult[0].Id
ReadId(row) == IF "Id" \in DOMAIN row THEN row.Id ELSE Undef

\* The row RETURNING * gives back: the inserted values, the generated
\* default for a column left out that has one, NULL for the others.
ReturnedRow(c, schema, table, columns, values, generated) ==
    LET cols == ColumnsOf(c, schema, table)
        Given(name) == \E i \in 1..Len(columns) : columns[i] = name
        ValueOf(name) == values[CHOOSE i \in 1..Len(columns) : columns[i] = name]
    IN  [i \in 1..Len(cols) |->
            [name  |-> cols[i].column_name,
             value |-> IF Given(cols[i].column_name)
                       THEN (IF ValueOf(cols[i].column_name) = Undef
                             THEN Null ELSE ValueOf(cols[i].column_name))
                       ELSE IF cols[i].has_default THEN generated ELSE Null]]

RowHas(row, name) == \E i \in 1..Len(row) : row[i].name = name

RowGet(row, name) == row[CHOOSE i \in 1..Len(row) : row[i].name = name].value

\* the idPatterns of insertData
IdPatterns(table) == <<"Id", "id", "ID", table \o "Id", table \o "_id">>

\* insertData: the id it reports for the returned row
InsertedId(table, row) ==
    LET present == SelectSeq(IdPatterns(table), LAMBDA pattern : RowHas(row, pattern))
        insertedId == IF present = <<>> THEN Null ELSE RowGet(row, present[1])
    IN  IF Truthy(insertedId) THEN insertedId ELSE row[1].value

\* The database's own checks of an insert: every NOT NULL column has a
\* value and every FK value is the key of a row of the referenced table.
ConstraintsHold(c, db, schema, table, row) ==
    LET cols == ColumnsOf(c, schema, table)
        fks == FksOf(c, schema, table)
    IN  /\ \A i \in 1..Len(cols) : cols[i].is_nullable \/ row[i].value # Null
        /\ \A j \in 1..Len(fks) :
              LET v == RowGet(row, fks[j].source_column)
              IN  v = Null \/
                  v \in db[TableKey(fks[j].target_schema, fks[j].target_table)]

\* the object insertData returns; node tells which call issued the insert
SuccessOutcome(schema, table, id, node) ==
    [success |-> TRUE, id |-> id, table |-> TableKey(schema, table),
     error |-> FALSE, node |-> node]

FailureOutcome(tableKey, node) ==
    [success |-> FALSE, id |-> Undef, table |-> tableKey,
     error |-> TRUE, node |-> node]

----------------------------------------------------------------------------
(* The environment's answers.  Each operator gives the set of answers the   *)
(* database may give to one call; fault is 1 for an answer that is a        *)
(* deviation (an error, an insert without a row, a falsy generated key).    *)

Event(op, node, table, res) ==
    [op |-> op, node |-> node, table |-> table, res |-> res,
     columns |-> <<>>, values |-> <<>>, id |-> Undef]

InsertEvent(node, table, res, columns, values, id) ==
    [op |-> "insert", node |-> node, table |-> table, res |-> res,
     columns |-> columns, values |-> values, id |-> id]

\* a query of the resolver failed: the error is caught where it was raised
\* and written to the console
QueryError(node, table, query) == Event("queryError", node, table, query)

\* what main writes to the console: the message told by res, and for the
\* final report the counters it prints
Console(table, res, cnt) ==
    [op |-> "console", node |-> 0, table |-> table, res |-> res,
     columns |-> <<>>,
     values |-> <<cnt.successfulInserts, cnt.failedInserts, cnt.totalInserts>>,
     id |-> Undef]

\* variant: a key the lookup found is put into the cache; C17 fails under it
FromCacheOrDatabaseCaching(c, db, cache, node, schema, table) ==
    LET key == TableKey(schema, table)
        ev == Event("getRandomId", node, key, "")
    IN  IF CacheHas(cache, key)
        THEN {[fkValue |-> cache[key][i], events |-> <<>>, fault |-> 0,
               cache |-> cache] : i \in 1..Len(cache[key])}
        ELSE {[fkValue |-> ReadId(RandomIdRows(c, schema, table, v)[1]),
               events |-> <<ev>>, fault |-> 0,
               cache |-> CachePush(cache, key, v)] : v \in db[key]}
             \cup {[fkValue |-> Null, events |-> <<ev>>, fault |-> 0, cache |-> cache]}

\* The value of an FK whose target table is known: a cached id picked at
\* random, or else the answer of getRandomId (lines 82-94 and 107-120);
\* cache is the id cache as the call leaves it.
FromCacheOrDatabase(c, db, cache, node, schema, table) ==
    LET key == TableKey(schema, table)
        ev == Event("getRandomId", node, key, "")
        err == QueryError(node, key, "getRandomId")
    IN  IF CacheHas(cache, key)
        THEN {[fkValue |-> cache[key][i], events |-> <<>>, fault |-> 0,
               cache |-> cache] : i \in 1..Len(cache[key])}
        ELSE {[fkValue |-> ReadId(RandomIdRows(c, schema, table, v)[1]),
               events |-> <<ev>>, fault |-> 0, cache |-> cache] : v \in db[key]}
             \cup {IF db[key] = {}
                   THEN [fkValue |-> Null, events |-> <<ev>>, fault |-> 0,
                         cache |-> cache]
                   ELSE [fkValue |-> Null, events |-> <<ev, err>>, fault |-> 1,
                         cache |-> cache]}

\* resolveForeignKeyIntelligent: childNode is the node found, 0 for null
ResolveForeignKeyIntelligent(c, db, cache, ns, node, column, schema, table, childNode) ==
    IF childNode # 0
    THEN FromCacheOrDatabase(c, db, cache, node,
                             ns[childNode].to_schema, ns[childNode].to_table)
    ELSE LET fkInfo == FindFKReference(c, schema, table, column)
             ev == Event("findFKReference", node, TableKey(schema, table), column)
             err == QueryError(node, TableKey(schema, table), "findFKReference")
             none == [fkValue |-> Null, events |-> <<ev>>, fault |-> 0,
                      cache |-> cache]
             failed == [fkValue |-> Null, events |-> <<ev, err>>, fault |-> 1,
                        cache |-> cache]
         IN  IF fkInfo = NoFk THEN {none, failed}
             ELSE {failed} \cup
                  {[r EXCEPT !.events = <<ev>> \o r.events] :
                      r \in FromCacheOrDatabase(c, db, cache, node,
                                fkInfo.target_schema, fkInfo.target_table)}

\* The literals the value synthesizer may produce for a column: a fresh one,
\* or, by chance, the key of a row of the table an FK column references.
Generated(c, db, schema, table, column, fresh) ==
    LET fkInfo == FindFKReference(c, schema, table, column)
    IN  {fresh} \cup
        (IF fkInfo = NoFk THEN {}
         ELSE db[TableKey(fkInfo.target_schema, fkInfo.target_table)])

\* the key of a row: the value of the column foreign keys reference, which
\* is id in every catalog
KeyOf(row) == IF RowHas(row, "id") THEN RowGet(row, "id") ELSE row[1].value

\* insertData: the answers of the database to the INSERT ... RETURNING *
InsertData(c, db, schema, table, columns, values, fresh, node) ==
    LET key == TableKey(schema, table)
        Row(generated) == ReturnedRow(c, schema, table, columns, values, generated)
        Accept(generated, fault) ==
            [outcome |-> SuccessOutcome(schema, table,
                                        InsertedId(table, Row(generated)), node),
             res |-> "row", rowKey |-> {KeyOf(Row(generated))}, fault |-> fault]
        noRow == [outcome |-> SuccessOutcome(schema, table, Undef, node),
                  res |-> "norow", rowKey |-> {}, fault |-> 1]
        Reject(fault) ==
            [outcome |-> FailureOutcome(key, node),
             res |-> "error", rowKey |-> {}, fault |-> fault]
    IN  IF ConstraintsHold(c, db, schema, table, Row(fresh))
        THEN {Accept(fresh, 0), Accept(0, 1), noRow, Reject(1)}
        ELSE {Reject(0)}

----------------------------------------------------------------------------
(* State *)

Roots == ChildIds(nodes, 0)

Top(stack) == stack[Len(stack)]

Pop(stack) == SubSeq(stack, 1, Len(stack) - 1)

SetTop(stack, f) == [stack EXCEPT ![Len(stack)] = f]

MayFault(n) == faults + n <= MaxFaults

BFrame(table, depth, parent) ==
    [table |-> table, depth |-> depth, parent |-> parent,
     st |-> "call", fks |-> <<>>, i |-> 1]

GFrame(node) ==
    [node |-> node, st |-> "children", ci |-> 1, cols |-> <<>>, k |-> 1,
     columns |-> <<>>, values |-> <<>>, results |-> <<>>]

MainInit ==
    [st |-> "find", schema |-> "", table |-> "", cols |-> <<>>, k |-> 1,
     columns |-> <<>>, values |-> <<>>]

Inputs(c) == {"", "nope", Catalog(c).start}

InitFor(catalogs) ==
    /\ cat \in catalogs
    /\ rows \in {[k \in TableKeys(cat) |-> {}],
                 [k \in TableKeys(cat) |-> {PrefilledKey}]}
    /\ nextVal = 1
    /\ faults = 0
    /\ pc = "ask"
    /\ tableName = ""
    /\ visited = {}
    /\ nodes = <<>>
    /\ bstack = <<>>
    /\ gstack = <<>>
    /\ insertedIds = EmptyMap
    /\ idMap = EmptyMap
    /\ rootIdx = 1
    /\ counters = [totalInserts |-> 0, successfulInserts |-> 0, failedInserts |-> 0]
    /\ mainSt = MainInit
    /\ mainResult = <<>>
    /\ ret = EmptyMap
    /\ dbLog = <<>>

Init == InitFor(CatalogNames)

BuildInit == InitFor(BuildCatalogs)

----------------------------------------------------------------------------
(* index.js: the question callback up to the build *)

\* variant: the ids of an earlier run are in the cache when the run goes
\* on; C20 fails under it
StaleCache(map) == [key \in TableKeys(cat) |-> <<PrefilledKey>>]

\* clearCache
ClearCache(map) == EmptyMap

\* rl.question's callback: the empty-input test, trim, clearCache
\* cleanup(): await disconnect(), then rl.close(); an error of disconnect is
\* caught and written to the console, and rl.close() is not reached
Cleanup(disconnected) ==
    IF disconnected
    THEN << Event("disconnect", 0, "", "ok"), Event("close", 0, "", "") >>
    ELSE << Event("disconnect", 0, "", "error") >>

Ask ==
    /\ pc = "ask"
    /\ \E input \in Inputs(cat) :
          IF input = ""
          THEN /\ pc' = "done"
               /\ dbLog' = Append(dbLog, Console("", "empty", counters)) \o Cleanup(TRUE)
               /\ UNCHANGED <<tableName, insertedIds>>
          ELSE /\ tableName' = input
               /\ insertedIds' = ClearCache(insertedIds)
               /\ pc' = "find"
               /\ dbLog' = dbLog
    /\ UNCHANGED <<cat, rows, nextVal, faults, visited, nodes, bstack, gstack,
                   idMap, rootIdx, counters, mainSt, mainResult, ret>>

\* const tableExists = await findTableInDatabase(tableName), then exploreTree.
\* Without the table main calls cleanup() and returns from inside the try,
\* whose finally calls cleanup() again: what disconnect() answers on a
\* connection that is closed is the client library's, either answer is taken
FindStart ==
    /\ pc = "find"
    /\ \E fault \in {0, 1} :
          LET tableExists == IF fault = 1 THEN NoTable
                             ELSE FindTableInDatabase(cat, tableName)
          IN  /\ MayFault(fault)
              /\ faults' = faults + fault
              /\ IF tableExists = NoTable
                 THEN /\ pc' = "done"
                      /\ bstack' = bstack
                      /\ \E again \in BOOLEAN :
                            dbLog' = dbLog \o <<Event("findTable", 0, tableName, ""),
                                                 Console(tableName, "notFound", counters)>>
                                           \o Cleanup(TRUE) \o Cleanup(again)
                 ELSE /\ pc' = "build"
                      /\ bstack' = <<BFrame(tableName, 0, 0)>>
                      /\ dbLog' = Append(dbLog, Event("findTable", 0, tableName, ""))
    /\ UNCHANGED <<cat, rows, nextVal, tableName, visited, nodes, gstack,
                   insertedIds, idMap, rootIdx, counters, mainSt, mainResult, ret>>

----------------------------------------------------------------------------
(* foreignKeys.js: exploreTree, one step per suspension point *)

\* variant: main goes to the start table at once; C24 fails under it
StraightToMain(ns) == "main"

\* variant: without dependencies the start table is left out as well; C26
\* fails under it
SkipStartTable(ns) == IF ChildIds(ns, 0) = <<>> THEN "report" ELSE "phase1"

\* where main goes when exploreTree has returned the tree
AfterBuild(ns) == IF ChildIds(ns, 0) = <<>> THEN "main" ELSE "phase1"

\* entry of exploreTree: the depth guard, then await getForeignKeys(table)
ExploreCall ==
    /\ pc = "build"
    /\ bstack # <<>>
    /\ Top(bstack).st = "call"
    /\ LET f == Top(bstack)
       IN  IF DepthExceeded(f.depth)
           THEN /\ bstack' = Pop(bstack)
                /\ pc' = IF Len(bstack) = 1 THEN AfterBuild(nodes) ELSE pc
                /\ UNCHANGED <<faults, dbLog>>
           ELSE \E fault \in {0, 1} :
                   /\ MayFault(fault)
                   /\ faults' = faults + fault
                   /\ dbLog' = Append(dbLog, Event("getForeignKeys", f.parent, f.table,
                                                    IF fault = 1 THEN "error" ELSE ""))
                   /\ bstack' = SetTop(bstack,
                         [f EXCEPT !.st = "loop",
                                   !.fks = IF fault = 1 THEN <<>>
                                           ELSE GetForeignKeys(cat, f.table)])
                   /\ pc' = pc
    /\ UNCHANGED <<cat, rows, nextVal, tableName, visited, nodes, gstack,
                   insertedIds, idMap, rootIdx, counters, mainSt, mainResult, ret>>

\* one turn of "for (const fk of fks)": a new edge becomes a node and
\* exploreTree is called for its target table
ExploreLoop ==
    /\ pc = "build"
    /\ bstack # <<>>
    /\ Top(bstack).st = "loop"
    /\ Top(bstack).i <= Len(Top(bstack).fks)
    /\ LET f == Top(bstack)
           fk == f.fks[f.i]
           key == EdgeKey(fk)
           next == [f EXCEPT !.i = f.i + 1]
       IN  IF ~IsVisited(visited, key)
           THEN /\ visited' = MarkVisited(visited, key)
                /\ nodes' = Append(nodes, MakeNode(fk, f.depth, f.parent))
                /\ bstack' = Append(SetTop(bstack, next),
                                    BFrame(fk.target_table, f.depth + 1, Len(nodes) + 1))
           ELSE /\ bstack' = SetTop(bstack, next)
                /\ UNCHANGED <<visited, nodes>>
    /\ UNCHANGED <<cat, rows, nextVal, faults, pc, tableName, gstack, insertedIds,
                   idMap, rootIdx, counters, mainSt, mainResult, ret, dbLog>>

\* "return result": the loop is over
ExploreReturn ==
    /\ pc = "build"
    /\ bstack # <<>>
    /\ Top(bstack).st = "loop"
    /\ Top(bstack).i > Len(Top(bstack).fks)
    /\ bstack' = Pop(bstack)
    /\ pc' = IF Len(bstack) = 1 THEN AfterBuild(nodes) ELSE pc
    /\ UNCHANGED <<cat, rows, nextVal, faults, tableName, visited, nodes, gstack,
                   insertedIds, idMap, rootIdx, counters, mainSt, mainResult, ret, dbLog>>

----------------------------------------------------------------------------
(* insert.js: generateInsert, one step per suspension point *)

\* variant: a failure is left out of the total; C22 fails under it
TallySuccesses(cnt, results) ==
    LET ok == Len(SelectSeq(results, LAMBDA r : r.success))
    IN  [totalInserts      |-> cnt.totalInserts + ok,
         successfulInserts |-> cnt.successfulInserts + ok,
         failedInserts     |-> cnt.failedInserts + (Len(results) - ok)]

\* main's tally of the outcomes generateInsert returned (results.forEach)
Tally(cnt, results) ==
    LET ok == Len(SelectSeq(results, LAMBDA r : r.success))
    IN  [totalInserts      |-> cnt.totalInserts + Len(results),
         successfulInserts |-> cnt.successfulInserts + ok,
         failedInserts     |-> cnt.failedInserts + (Len(results) - ok)]

\* variant: main's map stays as it is; C9 fails under it
Forget(map, results) == map

\* main's map of the ids of the outcomes (result.id && result.table)
RECURSIVE Remember(_, _)
Remember(map, results) ==
    IF results = <<>> THEN map
    ELSE LET r == Head(results)
         IN  Remember(IF r.success /\ Truthy(r.id) /\ r.table # ""
                      THEN CachePush(map, r.table, r.id) ELSE map,
                      Tail(results))

\* variant: the id of any outcome is cached; C8 fails under it
CacheAlways(insertResult) == TRUE

\* variant: the insert does not wait for the children; C4 fails under it
ChildrenSkipped(f) == TRUE

\* variant: outcomes are put in front; C1 fails under it
PushResultsFront(results, more) == more \o results

\* variant: only successes are kept; C5 fails under it
PushSuccesses(results, more) == results \o SelectSeq(more, LAMBDA r : r.success)

\* generateInsert's test before it caches an id
ShouldCache(insertResult) == insertResult.success /\ Truthy(insertResult.id)

\* variant: the loop over the children ends at the first failure; C28 fails
\* under it
StopAtFailure(f) ==
    \/ f.ci > Len(ChildIds(nodes, f.node))
    \/ \E k \in 1..Len(f.results) : ~f.results[k].success

\* "for (const child of node.children)" is over
ChildrenDone(f) == f.ci > Len(ChildIds(nodes, f.node))

\* results.push(...childResults) and results.push(insertResult)
PushResults(results, more) == results \o more

\* main: const results = await generateInsert(node), for the next root
CallGenerateInsert ==
    /\ pc = "phase1"
    /\ gstack = <<>>
    /\ rootIdx <= Len(Roots)
    /\ gstack' = <<GFrame(Roots[rootIdx])>>
    /\ UNCHANGED <<cat, rows, nextVal, faults, pc, tableName, visited, nodes, bstack,
                   insertedIds, idMap, rootIdx, counters, mainSt, mainResult, ret, dbLog>>

\* await generateInsert(child)
GIChild ==
    /\ pc = "phase1"
    /\ gstack # <<>>
    /\ Top(gstack).st = "children"
    /\ ~ChildrenDone(Top(gstack))
    /\ gstack' = Append(gstack, GFrame(ChildIds(nodes, Top(gstack).node)[Top(gstack).ci]))
    /\ UNCHANGED <<cat, rows, nextVal, faults, pc, tableName, visited, nodes, bstack,
                   insertedIds, idMap, rootIdx, counters, mainSt, mainResult, ret, dbLog>>

\* await getRequiredColumns(node.to_schema, node.to_table); a throw lands
\* in the catch block, an empty answer returns the children's results
GIColumns ==
    /\ pc = "phase1"
    /\ gstack # <<>>
    /\ Top(gstack).st = "children"
    /\ ChildrenDone(Top(gstack))
    /\ LET f == Top(gstack)
           nd == nodes[f.node]
           key == TableKey(nd.to_schema, nd.to_table)
           requiredCols == GetRequiredColumns(cat, nd.to_schema, nd.to_table)
       IN  \E fault \in {0, 1} :
              /\ MayFault(fault)
              /\ faults' = faults + fault
              /\ dbLog' = Append(dbLog,
                    Event("getRequiredColumns", f.node, key,
                          IF fault = 1 THEN "throw"
                          ELSE IF requiredCols = <<>> THEN "empty" ELSE "ok"))
              /\ gstack' = SetTop(gstack,
                    IF fault = 1
                    THEN [f EXCEPT !.st = "return",
                                   !.results = PushResults(f.results,
                                                   <<FailureOutcome(key, f.node)>>)]
                    ELSE IF requiredCols = <<>>
                    THEN [f EXCEPT !.st = "return"]
                    ELSE [f EXCEPT !.st = "resolve", !.cols = requiredCols])
    /\ UNCHANGED <<cat, rows, nextVal, pc, tableName, visited, nodes, bstack,
                   insertedIds, idMap, rootIdx, counters, mainSt, mainResult, ret>>

\* one turn of "for (const col of requiredCols)"
GIResolve ==
    /\ pc = "phase1"
    /\ gstack # <<>>
    /\ Top(gstack).st = "resolve"
    /\ LET f == Top(gstack)
           nd == nodes[f.node]
           col == f.cols[f.k]
           childNode == FindChildNodeIntelligent(nodes, f.node, nd.to_schema,
                                                 nd.to_table, col.column_name)
       IN  \E r \in ResolveForeignKeyIntelligent(cat, rows, insertedIds, nodes, f.node,
                        col.column_name, nd.to_schema, nd.to_table, childNode) :
           \E generated \in Generated(cat, rows, nd.to_schema, nd.to_table,
                                      col.column_name, nextVal) :
              LET value == GetDefaultValue(col.data_type, r.fkValue,
                                           col.data_limit, generated)
              IN  /\ MayFault(r.fault)
                  /\ value = generated \/ generated = nextVal
                  /\ faults' = faults + r.fault
                  /\ nextVal' = IF value = nextVal THEN nextVal + 1 ELSE nextVal
                  /\ dbLog' = dbLog \o r.events
                  /\ insertedIds' = r.cache
                  /\ gstack' = SetTop(gstack,
                        [f EXCEPT !.columns = Append(f.columns, col.column_name),
                                  !.values = Append(f.values, value),
                                  !.k = f.k + 1,
                                  !.st = IF f.k = Len(f.cols) THEN "insert" ELSE "resolve"])
    /\ UNCHANGED <<cat, rows, pc, tableName, visited, nodes, bstack,
                   idMap, rootIdx, counters, mainSt, mainResult, ret>>

\* variant: generateInsert returns without the pause; C32 fails under it
NoPause == "return"

\* where generateInsert stands once the outcome is pushed: at the pause
AfterInsert == "pause"

\* await insertData(...), the caching of the id, results.push(insertResult)
GIInsert ==
    /\ pc = "phase1"
    /\ gstack # <<>>
    /\ Top(gstack).st = "insert"
    /\ LET f == Top(gstack)
           nd == nodes[f.node]
           tableKey == TableKey(nd.to_schema, nd.to_table)
       IN  \E a \in InsertData(cat, rows, nd.to_schema, nd.to_table,
                               f.columns, f.values, nextVal, f.node) :
              /\ MayFault(a.fault)
              /\ faults' = faults + a.fault
              /\ nextVal' = nextVal + 1
              /\ rows' = [rows EXCEPT ![tableKey] = @ \cup a.rowKey]
              /\ dbLog' = Append(dbLog,
                    InsertEvent(f.node, tableKey, a.res, f.columns, f.values, a.outcome.id))
              /\ insertedIds' = IF ShouldCache(a.outcome)
                                THEN CachePush(insertedIds, tableKey, a.outcome.id)
                                ELSE insertedIds
              /\ gstack' = SetTop(gstack,
                    [f EXCEPT !.st = AfterInsert,
                              !.results = PushResults(f.results, <<a.outcome>>)])
    /\ UNCHANGED <<cat, pc, tableName, visited, nodes, bstack, idMap, rootIdx,
                   counters, mainSt, mainResult, ret>>

\* await new Promise(resolve => setTimeout(resolve, 50))
GIPause ==
    /\ pc = "phase1"
    /\ gstack # <<>>
    /\ Top(gstack).st = "pause"
    /\ gstack' = SetTop(gstack, [Top(gstack) EXCEPT !.st = "return"])
    /\ UNCHANGED <<cat, rows, nextVal, faults, pc, tableName, visited, nodes, bstack,
                   insertedIds, idMap, rootIdx, counters, mainSt, mainResult, ret, dbLog>>

\* "return results": to the calling generateInsert, or to main's loop over
\* the roots, which tallies the outcomes and remembers their ids
GIReturn ==
    /\ pc = "phase1"
    /\ gstack # <<>>
    /\ Top(gstack).st = "return"
    /\ LET f == Top(gstack)
       IN  /\ ret' = [n \in DOMAIN ret \cup {f.node} |->
                         IF n = f.node THEN f.results ELSE ret[n]]
           /\ IF Len(gstack) > 1
              THEN LET caller == gstack[Len(gstack) - 1]
                   IN  /\ gstack' = SetTop(Pop(gstack),
                             [caller EXCEPT !.results = PushResults(caller.results, f.results),
                                            !.ci = caller.ci + 1])
                       /\ UNCHANGED <<counters, idMap, rootIdx, pc>>
              ELSE /\ gstack' = <<>>
                   /\ counters' = Tally(counters, f.results)
                   /\ idMap' = Remember(idMap, f.results)
                   /\ rootIdx' = rootIdx + 1
                   /\ pc' = IF rootIdx = Len(Roots) THEN "main" ELSE pc
    /\ UNCHANGED <<cat, rows, nextVal, faults, tableName, visited, nodes, bstack,
                   insertedIds, mainSt, mainResult, dbLog>>

----------------------------------------------------------------------------
(* index.js: insertMainTable and the report *)

\* The FK value insertMainTable gives a column: a cached id of the target
\* table from main's map, else null; the database is not asked for a row.
ResolveMainColumn(c, map, schema, table, column) ==
    LET fkInfo == FindFKReference(c, schema, table, column)
        ev == Event("findFKReference", 0, TableKey(schema, table), column)
        err == QueryError(0, TableKey(schema, table), "findFKReference")
        none == [fkValue |-> Null, events |-> <<ev>>, fault |-> 0]
        failed == [fkValue |-> Null, events |-> <<ev, err>>, fault |-> 1]
        targetTable == TableKey(fkInfo.target_schema, fkInfo.target_table)
    IN  IF fkInfo = NoFk THEN {none, failed}
        ELSE {failed} \cup
             (IF CacheHas(map, targetTable)
              THEN {[fkValue |-> map[targetTable][i], events |-> <<ev>>, fault |-> 0] :
                       i \in 1..Len(map[targetTable])}
              ELSE {[fkValue |-> Null, events |-> <<ev>>, fault |-> 0]})

\* const tableInfo = await findTableInDatabase(tableName)
MainFind ==
    /\ pc = "main"
    /\ mainSt.st = "find"
    /\ \E fault \in {0, 1} :
          LET tableInfo == IF fault = 1 THEN NoTable
                           ELSE FindTableInDatabase(cat, tableName)
          IN  /\ MayFault(fault)
              /\ faults' = faults + fault
              /\ dbLog' = Append(dbLog, Event("findTable", 0, tableName, ""))
              /\ IF tableInfo = NoTable
                 THEN pc' = "report" /\ mainSt' = mainSt
                 ELSE /\ pc' = pc
                      /\ mainSt' = [mainSt EXCEPT !.st = "analyze",
                                                  !.schema = tableInfo.schema,
                                                  !.table = tableInfo.table]
    /\ UNCHANGED <<cat, rows, nextVal, tableName, visited, nodes, bstack, gstack,
                   insertedIds, idMap, rootIdx, counters, mainResult, ret>>

\* await analyzeTableStructure(schema, table): logged only, its errors are
\* caught inside
MainAnalyze ==
    /\ pc = "main"
    /\ mainSt.st = "analyze"
    /\ dbLog' = Append(dbLog, Event("analyzeTableStructure", 0,
                                    TableKey(mainSt.schema, mainSt.table), ""))
    /\ mainSt' = [mainSt EXCEPT !.st = "columns"]
    /\ UNCHANGED <<cat, rows, nextVal, faults, pc, tableName, visited, nodes, bstack,
                   gstack, insertedIds, idMap, rootIdx, counters, mainResult, ret>>

\* await getRequiredColumns(schema, table); a throw lands in the catch
\* block, which returns { success: false, error } without a table
MainColumns ==
    /\ pc = "main"
    /\ mainSt.st = "columns"
    /\ LET key == TableKey(mainSt.schema, mainSt.table)
           requiredCols == GetRequiredColumns(cat, mainSt.schema, mainSt.table)
       IN  \E fault \in {0, 1} :
              /\ MayFault(fault)
              /\ faults' = faults + fault
              /\ dbLog' = Append(dbLog,
                    Event("getRequiredColumns", 0, key,
                          IF fault = 1 THEN "throw"
                          ELSE IF requiredCols = <<>> THEN "empty" ELSE "ok"))
              /\ IF fault = 1
                 THEN /\ mainResult' = <<FailureOutcome("", 0)>>
                      /\ pc' = "report"
                      /\ mainSt' = mainSt
                 ELSE IF requiredCols = <<>>
                 THEN /\ pc' = "report"
                      /\ UNCHANGED <<mainResult, mainSt>>
                 ELSE /\ mainSt' = [mainSt EXCEPT !.st = "resolve", !.cols = requiredCols]
                      /\ UNCHANGED <<mainResult, pc>>
    /\ UNCHANGED <<cat, rows, nextVal, tableName, visited, nodes, bstack, gstack,
                   insertedIds, idMap, rootIdx, counters, ret>>

\* one turn of insertMainTable's "for (const col of requiredCols)"
MainResolve ==
    /\ pc = "main"
    /\ mainSt.st = "resolve"
    /\ LET col == mainSt.cols[mainSt.k]
       IN  \E r \in ResolveMainColumn(cat, idMap, mainSt.schema, mainSt.table,
                                      col.column_name) :
           \E generated \in Generated(cat, rows, mainSt.schema, mainSt.table,
                                      col.column_name, nextVal) :
              LET value == GetDefaultValue(col.data_type, r.fkValue,
                                           col.data_limit, generated)
              IN  /\ MayFault(r.fault)
                  /\ value = generated \/ generated = nextVal
                  /\ faults' = faults + r.fault
                  /\ nextVal' = IF value = nextVal THEN nextVal + 1 ELSE nextVal
                  /\ dbLog' = dbLog \o r.events
                  /\ mainSt' = [mainSt EXCEPT
                        !.columns = Append(mainSt.columns, col.column_name),
                        !.values = Append(mainSt.values, value),
                        !.k = mainSt.k + 1,
                        !.st = IF mainSt.k = Len(mainSt.cols) THEN "insert" ELSE "resolve"]
    /\ UNCHANGED <<cat, rows, pc, tableName, visited, nodes, bstack, gstack,
                   insertedIds, idMap, rootIdx, counters, mainResult, ret>>

\* const insertResult = await insertData(schema, table, columns, values)
MainInsert ==
    /\ pc = "main"
    /\ mainSt.st = "insert"
    /\ LET tableKey == TableKey(mainSt.schema, mainSt.table)
       IN  \E a \in InsertData(cat, rows, mainSt.schema, mainSt.table,
                               mainSt.columns, mainSt.values, nextVal, 0) :
              /\ MayFault(a.fault)
              /\ faults' = faults + a.fault
              /\ nextVal' = nextVal + 1
              /\ rows' = [rows EXCEPT ![tableKey] = @ \cup a.rowKey]
              /\ dbLog' = Append(dbLog,
                    InsertEvent(0, tableKey, a.res, mainSt.columns, mainSt.values,
                                a.outcome.id))
              /\ mainResult' = <<a.outcome>>
              /\ pc' = "report"
    /\ UNCHANGED <<cat, tableName, visited, nodes, bstack, gstack, insertedIds,
                   idMap, rootIdx, counters, mainSt, ret>>

\* main: the tally of mainResult, the final report, and the cleanup() of the
\* finally block
Report ==
    /\ pc = "report"
    /\ counters' = Tally(counters, mainResult)
    /\ dbLog' = Append(dbLog, Console(tableName, "report", counters')) \o Cleanup(TRUE)
    /\ pc' = "done"
    /\ UNCHANGED <<cat, rows, nextVal, faults, tableName, visited, nodes, bstack,
                   gstack, insertedIds, idMap, rootIdx, mainSt, mainResult, ret>>

----------------------------------------------------------------------------
(* Specifications *)

Next ==
    \/ Ask
    \/ FindStart
    \/ ExploreCall
    \/ ExploreLoop
    \/ ExploreReturn
    \/ CallGenerateInsert
    \/ GIChild
    \/ GIColumns
    \/ GIResolve
    \/ GIInsert
    \/ GIPause
    \/ GIReturn
    \/ MainFind
    \/ MainAnalyze
    \/ MainColumns
    \/ MainResolve
    \/ MainInsert
    \/ Report

Spec == Init /\ [][Next]_vars

\* The run is one chain of awaits on a live event loop: a step that can be
\* taken is taken.
\* an awaited catalog query of the build is always answered, so a build step
\* that can be taken is taken
BuildStep == ExploreCall \/ ExploreLoop \/ ExploreReturn

FairSpec == Spec /\ WF_vars(BuildStep)

\* The run up to the return of exploreTree, over every catalog and the
\* chain of thirteen tables.
BuildNext ==
    \/ Ask
    \/ FindStart
    \/ ExploreCall
    \/ ExploreLoop
    \/ ExploreReturn

BuildSpec == BuildInit /\ [][BuildNext]_vars

----------------------------------------------------------------------------
(* Vocabulary of the properties *)

Inserts == SelectSeq(dbLog, LAMBDA e : e.op = "insert")

IsInsert(i) == dbLog[i].op = "insert"

\* the insert was accepted: insertData returned success: true
Succeeded(e) == e.op = "insert" /\ e.res # "error"

\* the outcomes of a returned sequence that are the node's own
OwnOutcomes(n) == SelectSeq(ret[n], LAMBDA r : r.node = n)

NumEdgeKeys(c) == Cardinality({EdgeKey(fk) : fk \in Range(Catalog(c).fks)})

Building == pc = "build"

\* no deviation of the environment so far, and no table held a row at start
Nominal == faults = 0 /\ \A k \in DOMAIN rows : PrefilledKey \notin rows[k]

----------------------------------------------------------------------------
(* C1: in every sequence generateInsert has returned for a node, each       *)
(* outcome belongs to the node or to one of its descendants, every outcome  *)
(* of a descendant that was produced is there, and an outcome of a          *)
(* descendant of a node always comes before that node's own outcome.        *)
C1_PostOrder ==
    \A n \in DOMAIN ret :
        LET r == ret[n]
        IN  /\ \A i \in 1..Len(r) :
                  r[i].node = n \/ IsDescendant(nodes, r[i].node, n)
            /\ \A i, j \in 1..Len(r) :
                  IsDescendant(nodes, r[j].node, r[i].node) => j < i
            /\ \A d \in 1..Len(nodes) :
                  IsDescendant(nodes, d, n) =>
                      /\ d \in DOMAIN ret
                      /\ \A k \in 1..Len(OwnOutcomes(d)) :
                            \E j \in 1..Len(r) : r[j] = OwnOutcomes(d)[k]

\* a parent whose insert succeeded after the insert of a child failed
C1_Witness ==
    \E n \in DOMAIN ret :
        \E i, j \in 1..Len(ret[n]) :
            /\ i < j
            /\ ret[n][j].node = n /\ ret[n][j].success
            /\ ret[n][i].node # n /\ ~ret[n][i].success

(* C2: every build that starts comes to an end, also over a cycle or a      *)
(* self-reference, and the tree never holds more nodes than the catalog     *)
(* has edge identities.                                                     *)
C2_BuildTerminates ==
    /\ [](Building => <>(~Building))
    /\ [](Len(nodes) <= NumEdgeKeys(cat))

\* the build over the cycle a -> b -> a has returned its two nodes
C2_Witness ==
    /\ cat = "cycle"
    /\ pc = "phase1"
    /\ bstack = <<>>
    /\ Len(nodes) = 2

(* C3: no two nodes of the tree have the same edge identity. *)
C3_NoDuplicateEdge ==
    \A i, j \in 1..Len(nodes) :
        i # j => NodeKey(nodes[i]) # NodeKey(nodes[j])

\* the self-edge has its node and was met again below it and left out
C3_Witness ==
    /\ cat = "selfref"
    /\ Len(nodes) = 1
    /\ bstack # <<>>
    /\ Top(bstack).depth = 1
    /\ Top(bstack).st = "loop"
    /\ Top(bstack).i = 2

(* C4, as the specification has it: before any insert into a table, an     *)
(* insert into each table it references was issued, whatever the schema    *)
(* graph.                                                                  *)
C4_ReferencedFirst ==
    \A i \in 1..Len(dbLog) :
        IsInsert(i) =>
            \A fk \in Range(Catalog(cat).fks) :
                TableKey(fk.source_schema, fk.source_table) = dbLog[i].table =>
                    \E j \in 1..(i - 1) :
                        /\ IsInsert(j)
                        /\ dbLog[j].table = TableKey(fk.target_schema, fk.target_table)

\* generateInsert is over for node n before the i-th query: its insert was
\* issued, or its table had no required column, or the discovery threw
Processed(n, i) ==
    \E j \in 1..(i - 1) :
        /\ dbLog[j].op = "getRequiredColumns"
        /\ dbLog[j].node = n
        /\ \/ dbLog[j].res \in {"empty", "throw"}
           \/ \E k \in (j + 1)..(i - 1) : IsInsert(k) /\ dbLog[k].node = n

(* C4, amended: when the insert of a node is issued, generateInsert is     *)
(* over for each child of the node, and when the insert into the start     *)
(* table is issued it is over for each root: the child's insert was issued *)
(* earlier, unless its table has no required column or the discovery of    *)
(* its columns threw.  A referenced table without a node of its own under  *)
(* the node (an edge already visited, as on a cycle) is not waited for.    *)
C4_ChildrenFirst ==
    \A i \in 1..Len(dbLog) :
        IsInsert(i) =>
            \A c \in Range(ChildIds(nodes, dbLog[i].node)) : Processed(c, i)

\* the insert of a node is issued after the insert of its child
C4_Witness ==
    \E i \in 1..Len(dbLog) :
        /\ IsInsert(i)
        /\ dbLog[i].node # 0
        /\ \E c \in Range(ChildIds(nodes, dbLog[i].node)) :
              \E j \in 1..(i - 1) : IsInsert(j) /\ dbLog[j].node = c

\* the processing of node n failed: its insert was rejected or the
\* discovery of its columns threw
NodeFailed(n) ==
    \E i \in 1..Len(dbLog) :
        /\ dbLog[i].node = n
        /\ \/ IsInsert(i) /\ dbLog[i].res = "error"
           \/ dbLog[i].op = "getRequiredColumns" /\ dbLog[i].res = "throw"

HasOutcome(r, n, success) ==
    \E m \in 1..Len(r) : r[m].node = n /\ r[m].success = success

C6_NoLookupAfterInsert ==
    \A i, j \in 1..Len(dbLog) :
        (i < j /\ Succeeded(dbLog[i]) /\ dbLog[j].op = "getRandomId") =>
            dbLog[j].table # dbLog[i].table

\* the step is an insert of generateInsert that the database accepted and
\* whose row it returned
EngineInsertSucceeds ==
    /\ Len(dbLog') = Len(dbLog) + 1
    /\ dbLog'[Len(dbLog')].op = "insert"
    /\ dbLog'[Len(dbLog')].node # 0
    /\ dbLog'[Len(dbLog')].res = "row"

(* C7, as the specification has it: each insert of generateInsert that     *)
(* succeeds appends the id of the new row to the id cache under            *)
(* schema.table, and nothing else, and appends a success outcome with that *)
(* id and table to the results.                                            *)
C7_CachedOnSuccess ==
    [][EngineInsertSucceeds =>
          LET e == dbLog'[Len(dbLog')]
              r == Top(gstack').results
          IN  /\ insertedIds' = CachePush(insertedIds, e.table, e.id)
              /\ Len(r) = Len(Top(gstack).results) + 1
              /\ r[Len(r)].success
              /\ r[Len(r)].id = e.id
              /\ r[Len(r)].table = e.table]_vars

\* the ids of the rows the accepted inserts of generateInsert into the
\* table returned, in the order of the inserts
RECURSIVE InsertedInto(_, _)
InsertedInto(log, key) ==
    IF log = <<>> THEN <<>>
    ELSE LET e == Head(log)
         IN  (IF e.op = "insert" /\ e.node # 0 /\ e.table = key /\ e.res = "row"
              THEN <<e.id>> ELSE <<>>) \o InsertedInto(Tail(log), key)

\* s is t with some of its elements left out
RECURSIVE IsSubSeq(_, _)
IsSubSeq(s, t) ==
    IF s = <<>> THEN TRUE
    ELSE IF t = <<>> THEN FALSE
    ELSE IF Head(s) = Head(t) THEN IsSubSeq(Tail(s), Tail(t))
    ELSE IsSubSeq(s, Tail(t))

IsPrefix(s, t) == Len(s) <= Len(t) /\ SubSeq(t, 1, Len(s)) = s

(* C8: the ids the cache holds under schema.table are ids of rows that     *)
(* accepted inserts into that table returned in this run, in the order of  *)
(* the inserts; only a step that is an accepted insert changes the cache,  *)
(* and a step only ever adds ids at the end of a table's sequence.         *)
C8_CacheFromInserts ==
    /\ [](\A key \in DOMAIN insertedIds :
              IsSubSeq(insertedIds[key], InsertedInto(dbLog, key)))
    /\ [][/\ \A key \in DOMAIN insertedIds :
                /\ key \in DOMAIN insertedIds'
                /\ IsPrefix(insertedIds[key], insertedIds'[key])
          /\ insertedIds' # insertedIds => EngineInsertSucceeds]_vars

\* an id is cached for a table after a rejected insert into it and a lookup
C8_Witness ==
    \E key \in DOMAIN insertedIds :
        /\ insertedIds[key] # <<>>
        /\ \E i \in 1..Len(dbLog) :
              IsInsert(i) /\ dbLog[i].table = key /\ dbLog[i].res = "error"
        /\ \E i \in 1..Len(dbLog) :
              dbLog[i].op = "getRandomId" /\ dbLog[i].table = key

\* the value the insert event gave the column
ValueOf(e, column) ==
    e.values[CHOOSE k \in 1..Len(e.columns) : e.columns[k] = column]

(* C9: with orders as start table, customers and products empty and every  *)
(* query answered, a finished run has issued three inserts, into           *)
(* customers, into products and then into orders, all three accepted; the  *)
(* three outcomes are successes, and the values of customer_id and         *)
(* product_id in the insert into orders are the ids of the two new rows.   *)
C9_OrdersScenario ==
    (cat = "orders" /\ tableName = "orders" /\ Nominal /\ pc = "done") =>
        /\ Len(Inserts) = 3
        /\ Inserts[1].table = "public.customers"
        /\ Inserts[2].table = "public.products"
        /\ Inserts[3].table = "public.orders"
        /\ \A i \in 1..3 : Inserts[i].res = "row"
        /\ Len(ret[1]) = 1 /\ ret[1][1].success
        /\ Len(ret[2]) = 1 /\ ret[2][1].success
        /\ Len(mainResult) = 1 /\ mainResult[1].success
        /\ counters.totalInserts = 3
        /\ counters.successfulInserts = 3
        /\ counters.failedInserts = 0
        /\ ValueOf(Inserts[3], "customer_id") = Inserts[1].id
        /\ ValueOf(Inserts[3], "product_id") = Inserts[2].id
        /\ Inserts[1].id = ret[1][1].id
        /\ Inserts[2].id = ret[2][1].id

\* the run over orders is finished and the row of orders is in the table
C9_Witness ==
    /\ cat = "orders"
    /\ tableName = "orders"
    /\ Nominal
    /\ pc = "done"
    /\ rows["public.orders"] # {}
    /\ rows["public.customers"] # {}
    /\ rows["public.products"] # {}

(* C10, as the specification has it: with the self-referencing table       *)
(* empty, the tree the build returns is the one node of the self-edge,     *)
(* without children, and each insert issued for the table carries NULL as  *)
(* the value of parent_id.                                                 *)
C10_SelfReferenceNull ==
    (cat = "selfref" /\ tableName = "category" /\ Nominal) =>
        /\ pc \in {"phase1", "main", "report", "done"} =>
              /\ Len(nodes) = 1
              /\ ChildIds(nodes, 1) = <<>>
              /\ nodes[1].from_column = "parent_id"
        /\ \A i \in 1..Len(dbLog) :
              (IsInsert(i) /\ dbLog[i].table = "public.category") =>
                  ValueOf(dbLog[i], "parent_id") = Null

(* C11, as the specification has it: when the start table is not found,   *)
(* the finished run has built no tree, issued no insert and produced no    *)
(* outcome, has told that the table was not found, and has reported zero   *)
(* successes and zero failures.                                            *)
StartNotFound ==
    /\ pc = "done"
    /\ \E i \in 1..Len(dbLog) : dbLog[i].op = "console" /\ dbLog[i].res = "notFound"

C11_NotFoundReport ==
    StartNotFound =>
        /\ nodes = <<>>
        /\ Inserts = <<>>
        /\ DOMAIN ret = {}
        /\ mainResult = <<>>
        /\ \E i \in 1..Len(dbLog) :
              /\ dbLog[i].op = "console"
              /\ dbLog[i].res = "report"
              /\ dbLog[i].values[1] = 0
              /\ dbLog[i].values[2] = 0

(* C12, as the specification has it: a run issues at most one insert per   *)
(* table schema.table, also for a table that several nodes have as target  *)
(* and for a start table that is a dependency as well.                     *)
C12_OneInsertPerTable ==
    \A i, j \in 1..Len(dbLog) :
        (IsInsert(i) /\ IsInsert(j) /\ i # j) => dbLog[i].table # dbLog[j].table

\* an error was raised while node n was processed
ErrorRaised(n) ==
    \E i \in 1..Len(dbLog) :
        /\ dbLog[i].node = n
        /\ \/ dbLog[i].op = "queryError"
           \/ dbLog[i].op = "getRequiredColumns" /\ dbLog[i].res = "throw"
           \/ IsInsert(i) /\ dbLog[i].res = "error"

(* C13, as the specification has it: generateInsert returns for every node *)
(* it was called for; when an error was raised while the node was          *)
(* processed, in the discovery of the columns, in the resolution of a      *)
(* foreign key or in the insert, the sequence returned holds one outcome   *)
(* of the node, a failure with the node's table, after the outcomes of the *)
(* children, which are all kept.                                           *)
C13_ErrorsBecomeOutcomes ==
    \A n \in DOMAIN ret :
        ErrorRaised(n) =>
            /\ Len(OwnOutcomes(n)) = 1
            /\ ~OwnOutcomes(n)[1].success
            /\ OwnOutcomes(n)[1].table = TableKey(nodes[n].to_schema, nodes[n].to_table)
            /\ \A c \in Range(ChildIds(nodes, n)) :
                  \A k \in 1..Len(ret[c]) :
                      \E j \in 1..Len(ret[n]) : ret[n][j] = ret[c][k]

\* the key of the table the column references, "" when it is no FK column
TargetOf(schema, table, column) ==
    LET fk == FindFKReference(cat, schema, table, column)
    IN  IF fk = NoFk THEN "" ELSE TableKey(fk.target_schema, fk.target_table)

\* the events the step has added to the log
Added == SubSeq(dbLog', Len(dbLog) + 1, Len(dbLog'))

\* the step fills an FK column whose target table has rows and no cached
\* id, and every query of the step is answered: the value of the column is
\* the key of a row the lookup found in the target table
LookupFills(schema, table, column, values) ==
    LET target == TargetOf(schema, table, column)
    IN  (target # "" /\ ~CacheHas(insertedIds, target) /\ rows[target] # {}
         /\ faults' = faults) =>
            /\ \E i \in 1..Len(Added) :
                  Added[i].op = "getRandomId" /\ Added[i].table = target
            /\ values[Len(values)] \in rows[target]

(* C14, as the specification has it: when generateInsert or insertMainTable *)
(* fills an FK column and the id cache has no id for the target table, the  *)
(* target table is asked for a row and the key of that row is the value of  *)
(* the column, unless the table is empty.                                   *)
C14_LookupOnCacheMiss ==
    [][/\ (pc = "phase1" /\ gstack # <<>> /\ Top(gstack).st = "resolve") =>
             LET f == Top(gstack)
             IN  LookupFills(nodes[f.node].to_schema, nodes[f.node].to_table,
                             f.cols[f.k].column_name, Top(gstack').values)
       /\ (pc = "main" /\ mainSt.st = "resolve") =>
             LookupFills(mainSt.schema, mainSt.table,
                         mainSt.cols[mainSt.k].column_name, mainSt'.values)]_vars

\* the step fills an FK column for whose target table the map has ids, and
\* every query of the step is answered: the value of the column is one of
\* these ids
CachedFills(map, schema, table, column, values) ==
    LET target == TargetOf(schema, table, column)
    IN  (target # "" /\ CacheHas(map, target) /\ faults' = faults) =>
            values[Len(values)] \in Range(map[target])

DataTypes == {"integer", "bigint", "smallint", "character varying", "text",
              "uuid", "boolean", "unknown"}

(* C15: getDefaultValue returns the FK value it is given, whatever the     *)
(* data type and the limit, unless that value is null or undefined, and    *)
(* then only it returns the synthesized value; so the value generateInsert *)
(* and insertMainTable give a column for which the resolution found a      *)
(* cached id is that id.                                                   *)
C15_FkValueFirst ==
    [][/\ \A dataType \in DataTypes : \A limit \in {Null, 1, 16, 32} :
             /\ \A fkValue \in 0..3 :
                   GetDefaultValue(dataType, fkValue, limit, nextVal) = fkValue
             /\ \A fkValue \in {Null, Undef} :
                   GetDefaultValue(dataType, fkValue, limit, nextVal) = nextVal
       /\ (pc = "phase1" /\ gstack # <<>> /\ Top(gstack).st = "resolve") =>
             LET f == Top(gstack)
             IN  CachedFills(insertedIds, nodes[f.node].to_schema,
                             nodes[f.node].to_table, f.cols[f.k].column_name,
                             Top(gstack').values)
       /\ (pc = "main" /\ mainSt.st = "resolve") =>
             CachedFills(idMap, mainSt.schema, mainSt.table,
                         mainSt.cols[mainSt.k].column_name, mainSt'.values)]_vars

\* the smallint column b.c_id was given the id cached for c, and the main
\* table's insert carries cached ids as well
C15_Witness ==
    /\ cat = "shared"
    /\ CacheHas(insertedIds, "public.c")
    /\ \E i \in 1..Len(dbLog) :
          /\ IsInsert(i)
          /\ dbLog[i].table = "public.b"
          /\ ValueOf(dbLog[i], "c_id") \in Range(insertedIds["public.c"])
    /\ \E i \in 1..Len(dbLog) :
          /\ IsInsert(i)
          /\ dbLog[i].node = 0
          /\ CacheHas(idMap, "public.b")
          /\ ValueOf(dbLog[i], "b_id") \in Range(idMap["public.b"])

\* the node the documented order gives a column of the table of node n: the
\* match on the column's name, else on the name the mapping gives it, else
\* on the first stripped name that has one; 0 when the tree has none
MatchOnName(n, column) ==
    FindChildNodeDirect(nodes, n, nodes[n].to_schema, nodes[n].to_table, column)

MatchOnMapping(n, column) ==
    IF IntelligentColumnMapping(column) = "" THEN 0
    ELSE MatchOnName(n, IntelligentColumnMapping(column))

MatchOnPattern(n, column) ==
    LET hit(i) == /\ Patterns(column)[i] # column
                  /\ Len(Patterns(column)[i]) > 2
                  /\ MatchOnName(n, Patterns(column)[i]) # 0
    IN  IF \E i \in 1..3 : hit(i)
        THEN MatchOnName(n, Patterns(column)[CHOOSE i \in 1..3 :
                                hit(i) /\ \A j \in 1..(i - 1) : ~hit(j)])
        ELSE 0

DocumentedMatch(n, column) ==
    IF MatchOnName(n, column) # 0 THEN MatchOnName(n, column)
    ELSE IF MatchOnMapping(n, column) # 0 THEN MatchOnMapping(n, column)
    ELSE MatchOnPattern(n, column)

(* C16: when generateInsert fills a column, the source of the FK value is  *)
(* the first of: the node that matches the column's name, the node that    *)
(* matches the name the mapping gives, the node that matches a stripped    *)
(* name, the catalog.  With a node, the catalog is not asked about the     *)
(* column, and the value comes from the cache of the node's target table   *)
(* or, without cached id, that table is asked for a row; without any node  *)
(* the first query of the step asks the catalog about the column.          *)
C16_ResolutionOrder ==
    [][(pc = "phase1" /\ gstack # <<>> /\ Top(gstack).st = "resolve") =>
          LET f == Top(gstack)
              column == f.cols[f.k].column_name
              match == DocumentedMatch(f.node, column)
              target == TableKey(nodes[match].to_schema, nodes[match].to_table)
              values == Top(gstack').values
          IN  IF match # 0
              THEN /\ \A i \in 1..Len(Added) : Added[i].op # "findFKReference"
                   /\ IF CacheHas(insertedIds, target)
                      THEN Added = <<>> /\ values[Len(values)] \in Range(insertedIds[target])
                      ELSE Added # <<>> /\ Added[1].op = "getRandomId"
                                        /\ Added[1].table = target
              ELSE /\ Added # <<>>
                   /\ Added[1].op = "findFKReference"
                   /\ Added[1].res = column]_vars

\* the insert into t carries the id of e for the column with a node and a
\* mapping, the id of k for the column with a mapping and a stripped name,
\* and the id of m for the column with a stripped name only
C16_Witness ==
    /\ cat = "heuristic"
    /\ \A key \in {"public.k", "public.e", "public.m"} : CacheHas(insertedIds, key)
    /\ \E i \in 1..Len(dbLog) :
          /\ IsInsert(i)
          /\ dbLog[i].table = "public.t"
          /\ ValueOf(dbLog[i], "EstadoCaracteristicaId") \in Range(insertedIds["public.e"])
          /\ ValueOf(dbLog[i], "TipoCaracteristicaId") \in Range(insertedIds["public.k"])
          /\ ValueOf(dbLog[i], "TipoCaracteristica_id") \in Range(insertedIds["public.m"])

(* C17: a step in which generateInsert resolves a column, with             *)
(* findChildNodeIntelligent, findChildNodeDirect and                       *)
(* resolveForeignKeyIntelligent, leaves the id cache and the tree as they  *)
(* are, whatever the path: cached id, row found, empty table, failed       *)
(* query.  The mapping table has no writer in a run (addColumnMapping is   *)
(* never called) and is a constant here.                                   *)
C17_ResolutionReadsOnly ==
    [][(pc = "phase1" /\ gstack # <<>> /\ Top(gstack).st = "resolve") =>
          /\ insertedIds' = insertedIds
          /\ nodes' = nodes
          /\ visited' = visited
          /\ rows' = rows]_vars

\* one run in which a resolution used a cached id, one asked the target
\* table for a row, and one met a failed query
C17_Witness ==
    /\ \E i \in 1..Len(dbLog) : dbLog[i].op = "queryError" /\ dbLog[i].node # 0
    /\ \E i \in 1..Len(dbLog) : dbLog[i].op = "getRandomId" /\ dbLog[i].node # 0
    /\ \E i \in 1..Len(dbLog) :
          /\ IsInsert(i)
          /\ dbLog[i].node # 0
          /\ \E k \in 1..Len(dbLog[i].columns) :
                LET target == TargetOf(nodes[dbLog[i].node].to_schema,
                                       nodes[dbLog[i].node].to_table,
                                       dbLog[i].columns[k])
                IN  /\ target # ""
                    /\ CacheHas(insertedIds, target)
                    /\ dbLog[i].values[k] \in Range(insertedIds[target])

\* the build has returned the tree and every catalog query was answered
TreeReturned == pc = "phase1" /\ gstack = <<>> /\ rootIdx = 1 /\ faults = 0

(* C18: in the tree the roots have depth 0, a child has the depth of its   *)
(* parent plus 1, and no node is deeper than maxDepth; a node at maxDepth  *)
(* has no children, though its target table has foreign keys, and the      *)
(* rest of the tree is built: on the chain of thirteen tables the tree     *)
(* returned has the eleven nodes down to n10 -> n11 and the node of the    *)
(* table side, which is met after the chain.                               *)
C18_DepthBounded ==
    /\ \A i \in 1..Len(nodes) :
          /\ nodes[i].parent = 0 => nodes[i].depth = 0
          /\ nodes[i].parent # 0 => nodes[i].depth = nodes[nodes[i].parent].depth + 1
          /\ nodes[i].depth <= maxDepth
    /\ pc # "build" =>
          \A i \in 1..Len(nodes) :
              nodes[i].depth = maxDepth => ChildIds(nodes, i) = <<>>
    /\ (TreeReturned /\ cat = "deep") =>
          /\ Len(nodes) = maxDepth + 2
          /\ \A d \in 0..maxDepth :
                \E i \in 1..Len(nodes) :
                    /\ nodes[i].depth = d
                    /\ nodes[i].from_table = ChainNames[d + 1]
                    /\ nodes[i].to_table = ChainNames[d + 2]
          /\ \E i \in 1..Len(nodes) :
                nodes[i].to_table = "side" /\ nodes[i].parent = 0

\* the chain was cut below the node n10 -> n11 and the build went on to side
C18_Witness ==
    /\ TreeReturned
    /\ cat = "deep"
    /\ \E i \in 1..Len(nodes) :
          /\ nodes[i].depth = maxDepth
          /\ nodes[i].to_table = "n11"
          /\ FksOf(cat, "public", "n11") # <<>>
          /\ ChildIds(nodes, i) = <<>>
    /\ \E i \in 1..Len(nodes) : nodes[i].to_table = "side"

(* C19, as the specification has it: a child of a node is a foreign key of *)
(* the node's own target table, with the schema and the name of that       *)
(* table as its source, also when a table name exists in several schemas.  *)
C19_ChildOfTarget ==
    \A i \in 1..Len(nodes) :
        nodes[i].parent # 0 =>
            /\ nodes[i].from_schema = nodes[nodes[i].parent].to_schema
            /\ nodes[i].from_table = nodes[nodes[i].parent].to_table

InsertIssued ==
    /\ Len(dbLog') > Len(dbLog)
    /\ dbLog'[Len(dbLog')].op = "insert"

\* the calls of generateInsert that have issued their insert and have not
\* yet gone on from it to their return
Awaiting == {i \in 1..Len(gstack) : gstack[i].st \in {"insert", "pause"}}

\* the outcome of the insert generateInsert issued for node n is in the
\* results of a call that is running or in a sequence that was returned
Collected(n) ==
    \/ \E i \in 1..Len(gstack) :
          \E k \in 1..Len(gstack[i].results) : gstack[i].results[k].node = n
    \/ \E m \in DOMAIN ret : \E k \in 1..Len(ret[m]) : ret[m][k].node = n

(* C21: inserts are issued one at a time.  A step issues at most one       *)
(* insert, and issues it from the innermost running call of generateInsert *)
(* (or from insertMainTable when no call is running); no other call is     *)
(* then waiting for an insert of its own; every insert issued earlier has  *)
(* returned and its outcome has been collected; and generateInsert has     *)
(* returned for every child of the node, whether the child's insert        *)
(* succeeded or failed.                                                    *)
C21_OneInsertInFlight ==
    /\ [][InsertIssued =>
            /\ Len(dbLog') = Len(dbLog) + 1
            /\ Awaiting \subseteq {Len(gstack)}
            /\ LET n == dbLog'[Len(dbLog')].node
               IN  /\ IF n = 0 THEN gstack = <<>> /\ pc = "main"
                       ELSE gstack # <<>> /\ Top(gstack).node = n
                                          /\ Top(gstack).st = "insert"
                   /\ \A c \in Range(ChildIds(nodes, n)) : c \in DOMAIN ret
                   /\ \A i \in 1..Len(dbLog) :
                         IsInsert(i) => dbLog[i].node # n /\ Collected(dbLog[i].node)]_vars
    /\ [](Cardinality(Awaiting) <= 1)

\* the insert of a node with two children is being issued after the insert
\* of one child was rejected and the insert of the other accepted
C21_Witness ==
    /\ gstack # <<>>
    /\ Top(gstack).st = "pause"
    /\ LET n == Top(gstack).node
           cs == ChildIds(nodes, n)
       IN  /\ Len(cs) >= 2
           /\ \E i, j \in 1..Len(dbLog) :
                 /\ IsInsert(i) /\ dbLog[i].node = cs[1] /\ dbLog[i].res = "error"
                 /\ IsInsert(j) /\ dbLog[j].node = cs[2] /\ dbLog[j].res = "row"
           /\ IsInsert(Len(dbLog)) /\ dbLog[Len(dbLog)].node = n

\* the final report was written to the console
Reported == \E i \in 1..Len(dbLog) : dbLog[i].op = "console" /\ dbLog[i].res = "report"

\* the start table has been found: main is past the test of tableExists
StartFound == pc \in {"build", "phase1", "main", "report"}

\* The whole run over the catalogs that differ in the shape of the tree.
\* Every awaited query of the run is answered, so a step that can be taken
\* is taken.
RunInit == InitFor(RunCatalogs)

RunSpec == RunInit /\ [][Next]_vars /\ WF_vars(Next)

\* the outcomes of the run: what generateInsert returned for the roots, in
\* the order of the roots, and what insertMainTable returned
RECURSIVE OutcomesOf(_)
OutcomesOf(roots) ==
    IF roots = <<>> THEN <<>>
    ELSE (IF Head(roots) \in DOMAIN ret THEN ret[Head(roots)] ELSE <<>>)
         \o OutcomesOf(Tail(roots))

RunOutcomes == OutcomesOf(Roots) \o mainResult

NumberOf(outcomes, success) ==
    Len(SelectSeq(outcomes, LAMBDA r : r.success = success))

\* the counters the final report printed
ReportedCounters ==
    LET i == CHOOSE i \in 1..Len(dbLog) :
                 dbLog[i].op = "console" /\ dbLog[i].res = "report"
    IN  [successfulInserts |-> dbLog[i].values[1],
         failedInserts     |-> dbLog[i].values[2],
         totalInserts      |-> dbLog[i].values[3]]

(* C22: once the start table has been found the run reaches the final      *)
(* report, whatever inserts failed; the report is the last thing the run   *)
(* does, and the counters it prints are the numbers of the outcomes of the *)
(* run, dependencies and start table together: successfulInserts those     *)
(* with success = true, failedInserts those with success = false, and      *)
(* totalInserts their sum.                                                 *)
C22_ReportAlwaysReached ==
    /\ [](StartFound => <>Reported)
    /\ [](Reported =>
            /\ pc = "done"
            /\ ReportedCounters.successfulInserts = NumberOf(RunOutcomes, TRUE)
            /\ ReportedCounters.failedInserts = NumberOf(RunOutcomes, FALSE)
            /\ ReportedCounters.totalInserts =
                   ReportedCounters.successfulInserts + ReportedCounters.failedInserts
            /\ ReportedCounters.totalInserts = Len(RunOutcomes))

\* the report of a run in which the insert of a dependency was rejected and
\* the insert into the start table accepted
C22_Witness ==
    /\ Reported
    /\ ReportedCounters.failedInserts >= 1
    /\ ReportedCounters.successfulInserts >= 1
    /\ mainResult # <<>>
    /\ mainResult[1].success
    /\ \E i \in 1..Len(dbLog) :
          IsInsert(i) /\ dbLog[i].node # 0 /\ dbLog[i].res = "error"

\* every outcome the run holds: in the results of a running call, in a
\* returned sequence, or as the result of insertMainTable
AllOutcomes ==
    UNION {Range(gstack[i].results) : i \in 1..Len(gstack)}
    \cup UNION {Range(ret[n]) : n \in DOMAIN ret}
    \cup Range(mainResult)

C24_StartTableLast ==
    /\ [][(InsertIssued /\ dbLog'[Len(dbLog')].node = 0) =>
            /\ bstack = <<>>
            /\ gstack = <<>>
            /\ \A r \in Range(Roots) : r \in DOMAIN ret]_vars
    /\ [](\A i, j \in 1..Len(dbLog) :
             (IsInsert(i) /\ IsInsert(j) /\ dbLog[i].node = 0) => j <= i)

\* the insert into orders was issued after the inserts of its two roots,
\* and the run is over
C24_Witness ==
    /\ pc = "done"
    /\ Len(Roots) = 2
    /\ Len(Inserts) = 3
    /\ Inserts[3].node = 0
    /\ Inserts[1].node = Roots[1]
    /\ Inserts[2].node = Roots[2]

\* the values the specification lets the resolution of an FK to the table
\* key choose from: the cached ids when there are any, else the keys of the
\* rows of that table, null when it has none
Candidates(key) ==
    IF CacheHas(insertedIds, key) THEN Range(insertedIds[key])
    ELSE IF rows[key] # {} THEN rows[key]
    ELSE {Null}

\* the table the resolution of the column at hand takes the value from: the
\* target of the node found for it, else the target the catalog gives
ResolutionTarget ==
    LET f == Top(gstack)
        nd == nodes[f.node]
        column == f.cols[f.k].column_name
        childNode == FindChildNodeIntelligent(nodes, f.node, nd.to_schema,
                                              nd.to_table, column)
    IN  IF childNode # 0
        THEN TableKey(nodes[childNode].to_schema, nodes[childNode].to_table)
        ELSE TargetOf(nd.to_schema, nd.to_table, column)

\* what resolveForeignKeyIntelligent may return for the column at hand when
\* every query it makes is answered
ResolutionValues ==
    LET f == Top(gstack)
        nd == nodes[f.node]
        column == f.cols[f.k].column_name
        childNode == FindChildNodeIntelligent(nodes, f.node, nd.to_schema,
                                              nd.to_table, column)
    IN  {r.fkValue : r \in {x \in ResolveForeignKeyIntelligent(cat, rows,
                                      insertedIds, nodes, f.node, column,
                                      nd.to_schema, nd.to_table, childNode) :
                                x.fault = 0}}

(* C25, as the specification has it: whenever generateInsert resolves an   *)
(* FK column, every value the resolution may return, in that state of the  *)
(* cache and of the database, is one of the cached ids of the target table *)
(* when it has any, and otherwise the key of a row of the target table, or *)
(* null when the table is empty; so two resolutions of the same column     *)
(* with the cache and the database unchanged choose from the same set.     *)
C25_SameCandidateSet ==
    (pc = "phase1" /\ gstack # <<>> /\ Top(gstack).st = "resolve"
                   /\ ResolutionTarget # "") =>
        ResolutionValues \subseteq Candidates(ResolutionTarget)

\* the start table was found and has no foreign key
NoFkStart ==
    /\ StartFound \/ (pc = "done" /\ \E i \in 1..Len(dbLog) :
                                         dbLog[i].op = "getForeignKeys")
    /\ FindTableInDatabase(cat, tableName) # NoTable
    /\ GetForeignKeys(cat, tableName) = <<>>

\* insertMainTable was called: its lookup of the table follows the one main
\* made
MainCalled ==
    \E i, j \in 1..Len(dbLog) :
        i < j /\ dbLog[i].op = "findTable" /\ dbLog[j].op = "findTable"

(* C26: for a start table without foreign keys exploreTree returns the     *)
(* empty sequence, generateInsert is never called and no insert is issued  *)
(* for a dependency, and main goes on to insertMainTable all the same,     *)
(* which issues the one insert of the run, into the start table, when its  *)
(* queries are answered and the table has a column to fill.                *)
C26_NoDependencies ==
    /\ [](NoFkStart =>
            /\ nodes = <<>>
            /\ gstack = <<>>
            /\ pc # "phase1"
            /\ \A i \in 1..Len(dbLog) : IsInsert(i) => dbLog[i].node = 0)
    /\ [](NoFkStart => <>MainCalled)
    /\ []((NoFkStart /\ Reported /\ faults = 0) =>
            LET t == FindTableInDatabase(cat, tableName)
            IN  IF GetRequiredColumns(cat, t.schema, t.table) = <<>>
                THEN Inserts = <<>>
                ELSE /\ Len(Inserts) = 1
                     /\ Inserts[1].table = TableKey(t.schema, t.table)
                     /\ Inserts[1].res = "row")

\* the run on the table solo is over: no node, and the one insert of the
\* run went into solo
C26_Witness ==
    /\ cat = "solo"
    /\ Reported
    /\ nodes = <<>>
    /\ Len(Inserts) = 1
    /\ Inserts[1].table = "public.solo"
    /\ Inserts[1].node = 0

\* the lookups of foreign keys exploreTree has made: node is the node whose
\* children the call builds (0: the roots), res tells whether it failed
Lookups == {i \in 1..Len(dbLog) : dbLog[i].op = "getForeignKeys"}

BuildOver == pc \in {"phase1", "main", "report", "done"} /\ Lookups # {}

(* C27: a lookup of foreign keys that fails during the build gives the     *)
(* node it was made for an empty child list, and nothing else is lost: the *)
(* build goes on, it ends with a return to main and never with an error,   *)
(* and in the tree it returns every node whose own lookup was answered has *)
(* as children exactly the new edges among the foreign keys the catalog    *)
(* holds for the table of that name, each such edge being some node of the *)
(* tree.                                                                   *)
C27_LookupFailureIsLocal ==
    /\ [](\A i \in Lookups :
             dbLog[i].res = "error" => ChildIds(nodes, dbLog[i].node) = <<>>)
    /\ [][(pc = "build" /\ pc' # "build") =>
             pc' \in {"phase1", "main"} /\ bstack' = <<>>]_vars
    /\ [](BuildOver =>
            \A i \in Lookups :
                dbLog[i].res # "error" =>
                    LET t == FindTableInDatabase(cat, dbLog[i].table)
                        fks == FksOf(cat, t.schema, t.table)
                        children == ChildIds(nodes, dbLog[i].node)
                    IN  /\ \A k \in 1..Len(fks) :
                              \E m \in 1..Len(nodes) :
                                  NodeKey(nodes[m]) = EdgeKey(fks[k])
                        /\ \A k \in 1..Len(children) :
                              \E j \in 1..Len(fks) :
                                  /\ NodeKey(nodes[children[k]]) = EdgeKey(fks[j])
                                  /\ nodes[children[k]].from_column = fks[j].source_column
                        /\ \A j, k \in 1..Len(children) :
                              j < k => children[j] < children[k])

\* the lookup for b failed in the build over a -> b -> c and a -> c: the
\* node a -> b has no child and the tree has the root a -> c all the same
C27_Witness ==
    /\ cat = "shared"
    /\ BuildOver
    /\ Len(Roots) = 2
    /\ Len(nodes) = 2
    /\ \E i \in Lookups :
          /\ dbLog[i].res = "error"
          /\ dbLog[i].node # 0
          /\ nodes[dbLog[i].node].to_table = "b"

\* the queries for the columns of node n, and the inserts for node n
ColumnQueries(n) ==
    {i \in 1..Len(dbLog) : dbLog[i].op = "getRequiredColumns" /\ dbLog[i].node = n}

InsertsFor(n) == {i \in 1..Len(dbLog) : IsInsert(i) /\ dbLog[i].node = n}

\* node n was processed, once: generateInsert asked for its columns once,
\* then issued one insert when it found some and none when it found none or
\* the query failed, and returned
ProcessedOnce(n) ==
    /\ n \in DOMAIN ret
    /\ Cardinality(ColumnQueries(n)) = 1
    /\ \A i \in ColumnQueries(n) :
          IF dbLog[i].res = "ok"
          THEN /\ Cardinality(InsertsFor(n)) = 1
               /\ \A j \in InsertsFor(n) : j > i
               /\ Len(OwnOutcomes(n)) = 1
          ELSE /\ InsertsFor(n) = {}
               /\ Len(OwnOutcomes(n)) = (IF dbLog[i].res = "throw" THEN 1 ELSE 0)

(* C28: every run comes to its end, and when the dependencies are done     *)
(* every node of the tree has been processed exactly once, whatever        *)
(* inserts failed before it: its columns were asked for once, and then its *)
(* insert was issued once, or left out because the table has no column to  *)
(* fill, or the query for the columns failed and the node has a failure    *)
(* outcome; at no time has a node more than one insert.                    *)
C28_EveryNodeProcessedOnce ==
    /\ <>(pc = "done")
    /\ [](pc \in {"main", "report", "done"} =>
             \A n \in 1..Len(nodes) : ProcessedOnce(n))
    /\ [](\A n \in 1..Len(nodes) :
             Cardinality(ColumnQueries(n)) <= 1 /\ Cardinality(InsertsFor(n)) <= 1)

\* the run is over; the insert of the first child of a node was rejected,
\* and the inserts of the next child and of the node itself were issued
C28_Witness ==
    /\ pc = "done"
    /\ \E n \in 1..Len(nodes) :
          LET cs == ChildIds(nodes, n)
          IN  /\ Len(cs) >= 2
              /\ \E i \in InsertsFor(cs[1]) : dbLog[i].res = "error"
              /\ InsertsFor(cs[2]) # {}
              /\ InsertsFor(n) # {}

\* the id the specification gives a returned row: the value of the first of
\* the conventional id columns the row has, the first column when it has none
DocumentedId(table, row) ==
    LET present == SelectSeq(IdPatterns(table), LAMBDA pattern : RowHas(row, pattern))
    IN  IF present = <<>> THEN row[1].value ELSE RowGet(row, present[1])

\* the row the database returned for the insert the step issued: the key
\* it generated is fresh, or falsy when the step is a deviation
StepRow ==
    LET e == dbLog'[Len(dbLog')]
        schema == IF e.node = 0 THEN mainSt.schema ELSE nodes[e.node].to_schema
        table == IF e.node = 0 THEN mainSt.table ELSE nodes[e.node].to_table
    IN  ReturnedRow(cat, schema, table, e.columns, e.values,
                    IF faults' = faults THEN nextVal ELSE 0)

StepTable ==
    LET e == dbLog'[Len(dbLog')]
    IN  IF e.node = 0 THEN mainSt.table ELSE nodes[e.node].to_table

(* C29, as the specification has it: the id insertData reports for an      *)
(* insert that returned a row is the value of the first of the columns Id, *)
(* id, ID, <table>Id, <table>_id that the row has; the first column of the *)
(* row is reported only when the row has none of them.                     *)
C29_IdFromConventionalColumn ==
    [][(InsertIssued /\ dbLog'[Len(dbLog')].res = "row") =>
          dbLog'[Len(dbLog')].id = DocumentedId(StepTable, StepRow)]_vars

\* the rows are what the specification says getRequiredColumns returns for
\* table t of the catalog: one row for each column that is NOT NULL without
\* default or is the source column of a foreign key of t, and no other row;
\* an FK column is classified fk, any other required
ExactlyRequired(result, t) ==
    LET InFk(name) ==
            \E fk \in Range(Catalog(cat).fks) :
                /\ fk.source_schema = t.schema
                /\ fk.source_table = t.table
                /\ fk.source_column = name
        wanted == {col \in Range(t.columns) :
                      (~col.is_nullable /\ ~col.has_default) \/ InFk(col.column_name)}
    IN  /\ {r.column_name : r \in Range(result)} = {col.column_name : col \in wanted}
        /\ Len(result) = Cardinality(wanted)
        /\ \A r \in Range(result) :
              r.column_type = IF InFk(r.column_name) THEN "fk" ELSE "required"

TableOf(schema, table) ==
    CHOOSE t \in Range(Catalog(cat).tables) : t.schema = schema /\ t.table = table

----------------------------------------------------------------------------
(* Stripped column names *)

\* a tree to search: the edge s.t_id -> t, and under it the edges of t by
\* the columns abc_, abc and ab
SampleFk(column, target) == Fk("public", "t", column, "public", target, "id")

SampleTree ==
    << MakeNode(Fk("public", "s", "t_id", "public", "t", "id"), 0, 0),
       MakeNode(SampleFk("abc_", "u"), 1, 1),
       MakeNode(SampleFk("abc", "v"), 1, 1),
       MakeNode(SampleFk("ab", "w"), 1, 1) >>

SampleColumns ==
    {"abc_Id", "abc_id", "abcId", "abcid", "abId", "ab_id", "abid", "abc_", "t_id",
     "Id", "xyzId"}

\* the column name without the suffix, when it ends with one of the suffixes
StripSuffix(column, suffixes) ==
    IF \E suffix \in suffixes : EndsWith(column, suffix)
    THEN DropLast(column, Len(CHOOSE suffix \in suffixes : EndsWith(column, suffix)))
    ELSE column

\* the documented candidates, in the documented order
StrippedNames(column) ==
    << StripSuffix(column, {"Id"}), StripSuffix(column, {"_Id", "_id"}),
       StripSuffix(column, {"Id", "id"}) >>

\* the node the documented rule gives in tree ns under node n: that of the
\* first candidate that differs from the column, is longer than 2
\* characters and matches a node; 0 when there is none
StrippedMatch(ns, n, column) ==
    LET found(i) == FindChildNodeDirect(ns, n, ns[n].to_schema, ns[n].to_table,
                                        StrippedNames(column)[i])
        tried(i) == /\ StrippedNames(column)[i] # column
                    /\ Len(StrippedNames(column)[i]) > 2
        hit(i) == tried(i) /\ found(i) # 0
    IN  IF \E i \in 1..3 : hit(i)
        THEN found(CHOOSE i \in 1..3 : hit(i) /\ \A j \in 1..(i - 1) : ~hit(j))
        ELSE 0

\* neither the column's name nor its mapped name matches a node under n
NoNameMatch(ns, n, column) ==
    /\ FindChildNodeDirect(ns, n, ns[n].to_schema, ns[n].to_table, column) = 0
    /\ \/ IntelligentColumnMapping(column) = ""
       \/ FindChildNodeDirect(ns, n, ns[n].to_schema, ns[n].to_table,
                              IntelligentColumnMapping(column)) = 0

StrippedRule(ns, n, column) ==
    NoNameMatch(ns, n, column) =>
        FindChildNodeIntelligent(ns, n, ns[n].to_schema, ns[n].to_table, column)
            = StrippedMatch(ns, n, column)

\* the rule in the sample tree, for every sample column
SampleRule == \A column \in SampleColumns : StrippedRule(SampleTree, 1, column)

(* C31: when neither the column's name nor its mapped name matches a node, *)
(* findChildNodeIntelligent returns the node of the first of the names     *)
(* without Id, without _Id/_id, without Id/id, in that order, that differs *)
(* from the column's name, is longer than 2 characters and matches a node, *)
(* and null when there is none: in the sample tree for the sample columns, *)
(* and in the tree of the run for every column of the table of the node    *)
(* generateInsert is filling.                                              *)
C31_StrippedNamesInOrder ==
    /\ SampleRule
    /\ (pc = "phase1" /\ gstack # <<>> /\ Top(gstack).st = "resolve") =>
          LET f == Top(gstack)
          IN  StrippedRule(nodes, f.node, f.cols[f.k].column_name)

\* abc_Id finds the node of abc_ and not that of abc, abId finds nothing
\* although ab has a node, and a run is resolving TipoCaracteristica_id,
\* which no node and no mapping names, to the node of TipoCaracteristica
C31_Witness ==
    /\ FindChildNodeIntelligent(SampleTree, 1, "public", "t", "abc_Id") = 2
    /\ FindChildNodeIntelligent(SampleTree, 1, "public", "t", "abc_id") = 3
    /\ FindChildNodeIntelligent(SampleTree, 1, "public", "t", "abId") = 0
    /\ pc = "phase1" /\ gstack # <<>> /\ Top(gstack).st = "resolve"
    /\ LET f == Top(gstack)
           column == f.cols[f.k].column_name
       IN  /\ column = "TipoCaracteristica_id"
           /\ NoNameMatch(nodes, f.node, column)
           /\ FindChildNodeIntelligent(nodes, f.node, nodes[f.node].to_schema,
                                       nodes[f.node].to_table, column) # 0
           /\ nodes[FindChildNodeIntelligent(nodes, f.node, nodes[f.node].to_schema,
                        nodes[f.node].to_table, column)].from_column
                 = "TipoCaracteristica"

----------------------------------------------------------------------------
(* The pause after an insert *)

\* generateInsert stands at its pause
Pausing == pc = "phase1" /\ gstack # <<>> /\ Top(gstack).st = "pause"

(* C32: a step in which generateInsert issues an insert that succeeds      *)
(* leaves it at the pause, and while it stands at the pause the only step  *)
(* is the end of the pause, which issues no insert and no catalog query:   *)
(* every later insert or query of the run is issued after the pause.       *)
C32_PauseAfterInsert ==
    [][/\ (pc = "phase1" /\ \E i \in 1..Len(Added) : Succeeded(Added[i])) => Pausing'
       /\ Pausing => /\ Added = <<>>
                     /\ Len(gstack') = Len(gstack)
                     /\ Top(gstack').st = "return"]_vars

\* generateInsert stands at the pause after a second successful insert
C32_Witness ==
    /\ Pausing
    /\ Succeeded(dbLog[Len(dbLog)])
    /\ dbLog[Len(dbLog)].node = Top(gstack).node
    /\ \E i \in 1..(Len(dbLog) - 1) : Succeeded(dbLog[i])

----------------------------------------------------------------------------
(* Nodes whose table has no required column *)

\* the nodes of the subtree of n, n included
Subtree(n) == {n} \cup {d \in 1..Len(nodes) : IsDescendant(nodes, d, n)}

\* the outcomes the children of n returned, in the order of the children
RECURSIVE ChildOutcomes(_)
ChildOutcomes(children) ==
    IF children = <<>> THEN <<>>
    ELSE ret[Head(children)] \o ChildOutcomes(Tail(children))

\* the catalog gives the table of n no required column
NoRequiredColumns(n) ==
    GetRequiredColumns(cat, nodes[n].to_schema, nodes[n].to_table) = <<>>

\* the answers the query for the columns of n got
ColumnAnswers(n) == {dbLog[i].res : i \in ColumnQueries(n)}

\* no cached id comes from an insert of node n
NothingCachedBy(n) ==
    \A key \in DOMAIN insertedIds : \A k \in 1..Len(insertedIds[key]) :
        \E i \in 1..Len(dbLog) :
            /\ IsInsert(i)
            /\ dbLog[i].node # n
            /\ dbLog[i].table = key
            /\ dbLog[i].id = insertedIds[key][k]

\* C33 as the specification states it: once generateInsert has returned
\* for a node whose table has no required column, the node has no insert,
\* no outcome and no cached id, and the outcomes returned for a subtree are
\* as many as its nodes whose table has a required column
C33_NoColumnsNoOutcome ==
    \A n \in DOMAIN ret :
        /\ NoRequiredColumns(n) =>
              /\ InsertsFor(n) = {}
              /\ OwnOutcomes(n) = <<>>
              /\ NothingCachedBy(n)
              /\ ret[n] = ChildOutcomes(ChildIds(nodes, n))
        /\ Len(ret[n]) = Cardinality({d \in Subtree(n) : ~NoRequiredColumns(d)})
        /\ Len(ret[n]) <= Cardinality(Subtree(n))

(* C33, amended: once generateInsert has returned for a node whose query   *)
(* for the required columns answered with no column, the node has no       *)
(* insert, no outcome and no cached id, and what it returned is what its   *)
(* children returned; a node whose query threw has a failure outcome,      *)
(* whatever the columns of its table.  The outcomes returned for a subtree *)
(* are as many as its nodes whose query answered with a column or threw,   *)
(* and never more than its nodes.                                          *)
C33_NoColumnsNoOutcomeUnlessThrown ==
    \A n \in DOMAIN ret :
        /\ Subtree(n) \subseteq DOMAIN ret
        /\ ColumnAnswers(n) = {"empty"} =>
              /\ InsertsFor(n) = {}
              /\ OwnOutcomes(n) = <<>>
              /\ NothingCachedBy(n)
              /\ ret[n] = ChildOutcomes(ChildIds(nodes, n))
        /\ ColumnAnswers(n) = {"throw"} =>
              /\ InsertsFor(n) = {}
              /\ Len(OwnOutcomes(n)) = 1
              /\ ~OwnOutcomes(n)[1].success
        /\ Len(ret[n]) = Cardinality({d \in Subtree(n) : ColumnAnswers(d) # {"empty"}})
        /\ Len(ret[n]) <= Cardinality(Subtree(n))

\* generateInsert has returned for a node whose table has no required
\* column and whose query answered so: what it returned is the outcome of
\* the insert of its child
C33_Witness ==
    \E n \in DOMAIN ret :
        /\ NoRequiredColumns(n)
        /\ ColumnAnswers(n) = {"empty"}
        /\ ChildIds(nodes, n) # <<>>
        /\ ret[n] # <<>>
        /\ \A i \in 1..Len(ret[n]) : ret[n][i].node # n

----------------------------------------------------------------------------
(* The two id maps *)

\* main is past its loop over the roots, at or in insertMainTable
PhaseOneOver == pc = "main"

(* C34: once phase 1 is over, the map main has filled from the outcomes    *)
(* generateInsert returned, which it passes to insertMainTable, is the id  *)
(* cache of insert.js: the same table keys, and under each key the same    *)
(* ids in the same order.                                                  *)
C34_SameIdMaps ==
    PhaseOneOver =>
        /\ DOMAIN idMap = DOMAIN insertedIds
        /\ \A key \in DOMAIN idMap : idMap[key] = insertedIds[key]

\* phase 1 is over with ids under two keys, two of them under one key
C34_Witness ==
    /\ PhaseOneOver
    /\ Cardinality(DOMAIN idMap) >= 2
    /\ \E key \in DOMAIN idMap : Len(idMap[key]) = 2 /\ idMap[key][1] # idMap[key][2]

----------------------------------------------------------------------------
(* The edges the tree holds *)

\* the tables a foreign key of one of the tables references
Referenced(c, tables) ==
    {TableKey(fk.target_schema, fk.target_table) :
        fk \in {g \in Range(Catalog(c).fks) :
                   TableKey(g.source_schema, g.source_table) \in tables}}

\* the tables at most k foreign keys away from the tables
RECURSIVE WithinHops(_, _, _)
WithinHops(c, tables, k) ==
    IF k = 0 THEN tables
    ELSE WithinHops(c, tables \cup Referenced(c, tables), k - 1)

\* for each catalog, the tables at most maxDepth foreign keys away from its
\* start table
NearTables ==
    [c \in AllCatalogs |->
        LET t == FindTableInDatabase(c, Catalog(c).start)
        IN  WithinHops(c, {TableKey(t.schema, t.table)}, maxDepth)]

\* the nodes of the tree that carry the edge identity of a foreign key
NodesOf(fk) == {n \in 1..Len(nodes) : NodeKey(nodes[n]) = EdgeKey(fk)}

\* C35 as the specification states it: when the tree is built and every
\* lookup was answered, each foreign key whose source table is at most
\* maxDepth foreign keys away from the start table has its edge identity on
\* exactly one node of the tree, in whatever order the catalog lists them
C35_EveryNearEdgeOnce ==
    (BuildOver /\ faults = 0) =>
        \A fk \in Range(Catalog(cat).fks) :
            TableKey(fk.source_schema, fk.source_table) \in NearTables[cat]
                => Cardinality(NodesOf(fk)) = 1

----------------------------------------------------------------------------
(* Cleanup *)

\* the calls of disconnect() and of rl.close() the run has made
Disconnects == {i \in 1..Len(dbLog) : dbLog[i].op = "disconnect"}

Closes == {i \in 1..Len(dbLog) : dbLog[i].op = "close"}

\* the run is over
RunOver == pc = "done"

\* C36 as the specification states it: when the run is over, by whatever
\* path (empty input, start table not found, final report), the database
\* has been disconnected exactly once and the input interface closed
\* exactly once, and neither happens before the run is over
C36_CleanupOnce ==
    IF RunOver
    THEN Cardinality(Disconnects) = 1 /\ Cardinality(Closes) = 1
    ELSE Disconnects = {} /\ Closes = {}

----------------------------------------------------------------------------
(* The interrupt *)

\* the handler of SIGINT has run
Interrupted == \E i \in 1..Len(dbLog) : dbLog[i].op = "interrupt"

\* the calls on the connection: the catalog queries and the inserts
CallOps ==
    {"findTable", "getForeignKeys", "getRequiredColumns", "findFKReference",
     "getRandomId", "analyzeTableStructure", "insert"}

Calls == {i \in 1..Len(dbLog) : dbLog[i].op \in CallOps}

\* the calls the log holds after the first disconnect()
CallsAfterDisconnect ==
    {i \in Calls : \E d \in Disconnects : d < i}

\* the call that was awaited when the handler ran, if one was: the first
\* call after the interrupt, unless the run stood at the pause of
\* generateInsert, where it awaits a timer
InFlight ==
    {i \in Calls : \E h \in 1..(i - 1) :
        /\ dbLog[h].op = "interrupt"
        /\ dbLog[h].res = "query"
        /\ \A j \in (h + 1)..(i - 1) : j \notin Calls}

\* process.on('SIGINT'): the handler starts while the run awaits a query or
\* the timer of the pause, and itself awaits disconnect() in cleanup()
Interrupt ==
    /\ pc \in {"find", "build", "phase1", "main"}
    /\ ~Interrupted
    /\ dbLog' = dbLog \o << Event("interrupt", 0, "", IF Pausing THEN "timer" ELSE "query"),
                            Event("disconnect", 0, "", "ok") >>
    /\ UNCHANGED <<cat, rows, nextVal, faults, pc, tableName, visited, nodes, bstack,
                   gstack, insertedIds, idMap, rootIdx, counters, mainSt, mainResult,
                   ret>>

\* disconnect() has resolved: rl.close(), then process.exit(0)
Exit ==
    /\ Interrupted
    /\ pc # "exit"
    /\ pc' = "exit"
    /\ dbLog' = Append(dbLog, Event("close", 0, "", ""))
    /\ UNCHANGED <<cat, rows, nextVal, faults, tableName, visited, nodes, bstack,
                   gstack, insertedIds, idMap, rootIdx, counters, mainSt, mainResult,
                   ret>>

\* The run is followed as long as it has made no call on the connection
\* after disconnect() other than the one it was awaiting: what the client
\* library answers to a later call is not in the source.
Followed == CallsAfterDisconnect \subseteq InFlight

InterruptNext ==
    \/ Followed /\ Ask
    \/ Followed /\ FindStart
    \/ Followed /\ ExploreCall
    \/ Followed /\ ExploreLoop
    \/ Followed /\ ExploreReturn
    \/ Followed /\ CallGenerateInsert
    \/ Followed /\ GIChild
    \/ Followed /\ GIColumns
    \/ Followed /\ GIResolve
    \/ Followed /\ GIInsert
    \/ Followed /\ GIPause
    \/ Followed /\ GIReturn
    \/ Followed /\ MainFind
    \/ Followed /\ MainAnalyze
    \/ Followed /\ MainColumns
    \/ Followed /\ MainResolve
    \/ Followed /\ MainInsert
    \/ Followed /\ Report
    \/ Interrupt
    \/ Exit

\* the runs that may be interrupted: a start table with a tree of three nodes,
\* and one without
InterruptCatalogs == {"fanout", "solo"}

InterruptInit == InitFor(InterruptCatalogs)

InterruptSpec == InterruptInit /\ [][InterruptNext]_vars

\* C37 as the specification states it: no catalog query and no insert is
\* issued on the connection after disconnect() has been called, the call
\* that was in flight when the interrupt handler ran being left aside
C37_NoCallAfterDisconnect == CallsAfterDisconnect \subseteq InFlight

====
